---- MODULE Spec2Model ----
(***************************************************************************)
(* The durable task queue (SQLiteTaskQueue over the tasks, task_queue and  *)
(* progress tables) and the worker loops that pull from it.                *)
(*                                                                         *)
(* One step of the model is one committed unit of database work: the      *)
(* statements a coroutine runs up to and including a commit.  Coroutines   *)
(* interleave between such units, as they do at the awaits of the code.    *)
(* asyncio's queue lock (_lock) is a variable; cancel_task takes no lock.  *)
(***************************************************************************)
EXTENDS Integers, FiniteSets, Sequences, TLC

----------------------------------------------------------------------------
(* Bounds of the model *)

NumTasks == 2

NumWorkers == 2

MaxTime == 7

BaseDelay == 1

MaxFailures == 4

MaxCancels == 1

MaxFaults == 1

NumQueueWorkers == 3

NumQueueTasks == 1

MaxQueueFailures == 2

MaxQueueTime == 3

----------------------------------------------------------------------------
(* Program constants *)

CRITICAL == 1

HIGH == 2

NORMAL == 3

LOW == 4

DEFERRED == 5

MaxRetriesDefault == 3

----------------------------------------------------------------------------

Tasks == 1..NumTasks

Workers == 1..NumWorkers

Producer == 0 - 1

Free == 0

PutPriorities == {CRITICAL, NORMAL, DEFERRED}

PENDING == "pending"

IN_PROGRESS == "in_progress"

COMPLETED == "completed"

FAILED == "failed"

RETRYING == "retrying"

CANCELLED == "cancelled"

Absent == "none"

TaskStatus == {PENDING, IN_PROGRESS, COMPLETED, FAILED, RETRYING, CANCELLED}

Terminal == {COMPLETED, FAILED, CANCELLED}

NoTask == [id |-> 0, status |-> Absent, priority |-> 0, retry_count |-> 0,
           recoverable |-> FALSE, retry_after |-> 0, has_error |-> FALSE,
           queue_id |-> 0]

None == 0 - 1

NoDecision == [action |-> "none", current_workers |-> 0, target_workers |-> 0,
               confidence |-> 0]

NoMetrics == [cpu |-> 0, mem |-> 0, active_worker_count |-> 0]

NoArgs == [fn |-> "none"]

NoResult == [fn |-> "none"]

NoRow == [status |-> Absent, priority |-> 0, retry_count |-> 0,
          has_error |-> FALSE, recoverable |-> FALSE, retry_after |-> 0]

\* the columns of a row INSERTed by TaskRepository.create (the error columns
\* are not listed and stay NULL)
NewRow(p) == [NoRow EXCEPT !.status = PENDING, !.priority = p]

VARIABLES
    tasks,      \* tasks table: task id -> row (status "none": no row)
    queue,      \* task_queue table: set of rows
    progress,   \* progress table row of the session
    session,    \* SQLiteTaskQueue._session_info counters (in memory)
    now,        \* wall clock, seconds
    stamp,      \* order of clock readings within the model (sub-second part)
    lock,       \* SQLiteTaskQueue._lock: Free or the holder
    pc,         \* per worker: position in Worker.start / get / task_done
    cur,        \* per worker: the Task object it holds
    running,    \* per worker: Worker._running
    cancelled,  \* per worker: CancelledError already delivered
    ppc,        \* producer: position in put
    ptask,      \* producer: the Task being put
    cpc,        \* canceller: position in cancel_task
    ctask,      \* canceller: the Task object loaded by cancel_task
    ncancel,    \* number of cancel_task calls so far
    cret,       \* what the last cancel_task call returned, or "none"
    snap,       \* store as it was when the operation in flight began
    raised,     \* the operation whose store step raised last, or "none"
    doneRaised,       \* tasks whose task_done raised in a worker
    nfault,     \* number of store errors so far
    nfail,      \* number of processing attempts that raised so far
    hist,       \* per task: counts of dequeues, requeues, attempts; the
                \* delay of its last requeue
    ncrash,     \* number of times the process died and the session was resumed
    orphaned,   \* tasks that were InProgress when the process died
    wpc,        \* caller of wait_empty: position in its loop
    wsize,      \* caller of wait_empty: the queue size it has read
    ndup,       \* number of puts of an id that was already stored
    taskq,      \* the in-memory TaskQueue, its Task objects and its callers
    spc,        \* WorkerPool.shutdown: position
    polling,    \* workers that were inside get when stop() was called
    state,      \* HybridIntelligentScheduler.state, "none" before construction
    execution_mode,       \* HybridIntelligentScheduler.execution_mode
    scaler_workers,       \* DynamicWorkerScaler.workers (= worker_metrics): ids
    last_scaling_time,    \* DynamicWorkerScaler.last_scaling_time, or None
    scaling_history,      \* number of entries of DynamicWorkerScaler.scaling_history
    resource_history,     \* timestamps of DynamicWorkerScaler.resource_history
    current_phase_index,  \* ProgressiveScheduler.current_phase_index
    phase_start_time,     \* ProgressiveScheduler.phase_start_time, or None
    perf_active,          \* performance_history[-1]["active_workers"], or None
    sclock,               \* datetime.now() of the scheduler, seconds
    dynamic_decision,     \* what evaluate_scaling_need returned last
    fused_decision,       \* the decision of the last tick of _scheduling_loop
    scheduling_decisions, \* len(self.scheduling_decisions) of the scheduler
    system_metrics,       \* resource_history[-1]["metrics"], or NoMetrics
    is_running,           \* HybridIntelligentScheduler.is_running
    analyzed,             \* api_pattern and dynamic_scaler are set
    fn_args,    \* arguments of the function under check, or NoArgs
    fn_result   \* what the function returned, or NoResult

vars == <<tasks, queue, progress, session, now, stamp, lock, pc, cur, running,
          cancelled, ppc, ptask, cpc, ctask, ncancel, cret, snap, raised, doneRaised,
          nfault, nfail, hist, ncrash, orphaned, wpc, wsize, ndup, taskq, spc, polling,
          state, execution_mode, scaler_workers, last_scaling_time,
          scaling_history, resource_history, current_phase_index,
          phase_start_time, perf_active, sclock, dynamic_decision,
          fused_decision, scheduling_decisions, system_metrics, is_running, analyzed,
          fn_args, fn_result>>

store == <<tasks, queue, progress>>

----------------------------------------------------------------------------
(* Task (core/task.py) *)

RECURSIVE Pow2(_)

Pow2(n) == IF n <= 0 THEN 1 ELSE 2 * Pow2(n - 1)

Min(a, b) == IF a < b THEN a ELSE b

mark_in_progress(task) == [task EXCEPT !.status = IN_PROGRESS]

mark_completed(task) == [task EXCEPT !.status = COMPLETED]

\* variant: the retry test ignores whether the error is recoverable
mark_failed_ignoring_recoverable(task, recoverable) ==
    LET err == [task EXCEPT !.recoverable = recoverable,
                            !.has_error = TRUE,
                            !.retry_after = BaseDelay * Pow2(task.retry_count)]
    IN  IF task.retry_count < MaxRetriesDefault
        THEN [err EXCEPT !.status = RETRYING,
                         !.retry_count = task.retry_count + 1]
        ELSE [err EXCEPT !.status = FAILED]

\* variant: the retry budget test admits retry_count = max_retries
mark_failed_budget_off_by_one(task, recoverable) ==
    LET err == [task EXCEPT !.recoverable = recoverable,
                            !.has_error = TRUE,
                            !.retry_after = BaseDelay * Pow2(task.retry_count)]
    IN  IF recoverable /\ task.retry_count <= MaxRetriesDefault
        THEN [err EXCEPT !.status = RETRYING,
                         !.retry_count = task.retry_count + 1]
        ELSE [err EXCEPT !.status = FAILED]

mark_failed(task, recoverable) ==
    LET err == [task EXCEPT !.recoverable = recoverable,
                            !.has_error = TRUE,
                            !.retry_after = BaseDelay * Pow2(task.retry_count)]
    IN  IF recoverable /\ task.retry_count < MaxRetriesDefault
        THEN [err EXCEPT !.status = RETRYING,
                         !.retry_count = task.retry_count + 1]
        ELSE [err EXCEPT !.status = FAILED]

should_retry(task) ==
    /\ task.status = RETRYING
    /\ task.retry_count <= MaxRetriesDefault
    /\ task.has_error
    /\ task.recoverable

\* variant: the same delay after every failure
get_retry_delay_constant(task) == BaseDelay

get_retry_delay(task) ==
    IF task.has_error /\ task.retry_after # 0
    THEN task.retry_after
    ELSE BaseDelay * Pow2(task.retry_count - 1)

----------------------------------------------------------------------------
(* Repositories (core/db/sqlite/repositories) *)

\* tasks(id PK ...): a row with this task_id is already in the table
TaskIdPresent(tbl, t) == tbl[t].status # Absent

\* variant: INSERT OR REPLACE INTO tasks
TaskRepoCreateReplacing(tbl, t, p) == [tbl EXCEPT ![t] = NewRow(p)]

\* TaskRepository.create: INSERT INTO tasks ...; the statement raises and
\* inserts nothing when the task_id is already there
TaskRepoCreate(tbl, t, p) ==
    IF TaskIdPresent(tbl, t) THEN tbl
    ELSE [tbl EXCEPT ![t] = NewRow(p)]

\* TaskRepository.update: UPDATE tasks SET status, priority, retry_count,
\* error_message, error_type, error_details (the last_error) ...
TaskRepoUpdate(tbl, task) ==
    IF tbl[task.id].status = Absent THEN tbl
    ELSE [tbl EXCEPT ![task.id] = [status |-> task.status,
                                   priority |-> task.priority,
                                   retry_count |-> task.retry_count,
                                   has_error |-> task.has_error,
                                   recoverable |-> task.recoverable,
                                   retry_after |-> task.retry_after]]

\* TaskRepository._row_to_task: last_error is rebuilt from error_details
RowToTask(t, qid) ==
    [id |-> t, status |-> tasks[t].status, priority |-> tasks[t].priority,
     retry_count |-> tasks[t].retry_count,
     recoverable |-> tasks[t].recoverable,
     retry_after |-> tasks[t].retry_after,
     has_error |-> tasks[t].has_error, queue_id |-> qid]

\* QueueRepository._update_progress: every right-hand side of the UPDATE
\* reads the row as it was before the statement
UpdateProgress(p, pending_delta, processing_delta, completed_delta, failed_delta) ==
    [pending    |-> p.pending + pending_delta,
     processing |-> p.processing + processing_delta,
     completed  |-> p.completed + completed_delta,
     failed     |-> p.failed + failed_delta,
     total      |-> p.pending + p.processing + p.completed + p.failed]

\* variant: the query without its scheduled_at condition
DequeueCandidatesAnyTime ==
    {q \in queue : tasks[q.task].status \in {PENDING, RETRYING}}

\* WHERE t.status IN ('pending', 'retrying') AND q.scheduled_at <= now
DequeueCandidates ==
    {q \in queue : /\ tasks[q.task].status \in {PENDING, RETRYING}
                   /\ q.at <= now}

\* variant: ORDER BY q.scheduled_at ASC alone
OrderedBeforeByTimeOnly(a, b) ==
    \/ a.at < b.at
    \/ a.at = b.at /\ a.sub < b.sub

\* ORDER BY q.priority ASC, q.scheduled_at ASC
OrderedBefore(a, b) ==
    \/ a.priority < b.priority
    \/ /\ a.priority = b.priority
       /\ \/ a.at < b.at
          \/ a.at = b.at /\ a.sub < b.sub

\* ... LIMIT 1
DequeueSelect ==
    CHOOSE q \in DequeueCandidates :
        \A o \in DequeueCandidates \ {q} : OrderedBefore(q, o)

\* TaskRepository.list_by_status: SELECT * FROM tasks WHERE status = ?
CountOfStatus(status) == Cardinality({t \in Tasks : tasks[t].status = status})

\* variant: the demotion without its cap
RetryPriorityUncapped(task) == task.priority + 1

RetryPriority(task) == Min(task.priority + 1, DEFERRED)

\* variant: get, put and task_done without the lock
LockNotTaken(p) == TRUE

\* async with self._lock: the caller goes on only when nobody holds the lock
LockAvailable(p) == lock = Free

----------------------------------------------------------------------------
(* The in-memory TaskQueue (core/queue.py) and its callers                 *)
(*                                                                         *)
(* taskq is the TaskQueue object together with the coroutines that call    *)
(* it: the workers' loops (Worker.start) and one producer.  A step runs    *)
(* one ready coroutine up to its next suspension, as the event loop does:  *)
(* acquiring an asyncio lock suspends only when the lock is taken.         *)
(* get(timeout) awaits asyncio.wait_for(self._not_empty.wait(), ...):      *)
(* wait_for wraps wait() in a task of its own, so that the caller is       *)
(* suspended, holding the condition's lock, until that task has run, and   *)
(* again from the moment the task has reacquired the lock until the        *)
(* caller itself is resumed.                                               *)

QueueWorkers == 1..NumQueueWorkers

QueueTasks == 1..NumQueueTasks

QueueCallers == QueueWorkers \cup {Producer}

NoEntry == [task |-> 0, priority |-> 0, at |-> 0, sub |-> 0]

\* Task(...): a new task is Pending with the default priority
NewTask(t) == [NoTask EXCEPT !.id = t, !.status = PENDING, !.priority = NORMAL]

\* TaskQueue.__init__, and the callers created but not yet run
TaskQueueInit ==
    [queue        |-> {},
     task_map     |-> {},
     processing   |-> {},
     lock_holder  |-> Free,
     lock_waiters |-> <<>>,
     cond_holder  |-> Free,
     cond_waiters |-> <<>>,
     waiters      |-> <<>>,
     task         |-> [t \in QueueTasks |-> NoTask],
     pc           |-> [c \in QueueCallers |->
                          IF c = Producer THEN "put" ELSE "get"],
     cur          |-> [c \in QueueWorkers |-> NoEntry],
     ready        |-> QueueCallers,
     next         |-> 1,
     now          |-> 0,
     stamp        |-> 1,
     nfail        |-> 0]

\* the places where a caller stands at async with self._lock
LockPoints == {"put", "get_lock", "task_done"}

\* the places where a caller stands at async with self._not_empty, or at
\* the reacquisition of the condition's lock that ends Condition.wait
CondPoints == {"put_notify", "get", "reacquire", "timed_out_reacquire",
               "td_notify"}

InSeq(s, c) == \E i \in 1..Len(s) : s[i] = c

WithoutCaller(s, c) == SelectSeq(s, LAMBDA x : x # c)

\* Lock.release: the lock passes to the first waiter, which becomes ready
ReleaseLock(m) ==
    IF m.lock_waiters = <<>>
    THEN [m EXCEPT !.lock_holder = Free]
    ELSE [m EXCEPT !.lock_holder = Head(m.lock_waiters),
                   !.lock_waiters = Tail(m.lock_waiters),
                   !.ready = @ \cup {Head(m.lock_waiters)}]

ReleaseCond(m) ==
    IF m.cond_waiters = <<>>
    THEN [m EXCEPT !.cond_holder = Free]
    ELSE [m EXCEPT !.cond_holder = Head(m.cond_waiters),
                   !.cond_waiters = Tail(m.cond_waiters),
                   !.ready = @ \cup {Head(m.cond_waiters)}]

\* Condition.notify(1): the first caller in wait() is woken and has to
\* reacquire the condition's lock
Notify(m) ==
    IF m.waiters = <<>> THEN m
    ELSE [m EXCEPT !.pc[Head(m.waiters)] = "reacquire",
                   !.ready = @ \cup {Head(m.waiters)},
                   !.waiters = Tail(m.waiters)]

\* put, inside async with self._lock
PutBody(m) ==
    LET t == m.next
    IN  IF t \in m.task_map
        THEN ReleaseLock([m EXCEPT !.pc[Producer] = "put_notify"])
        ELSE ReleaseLock(
               [m EXCEPT !.queue = @ \cup {[task |-> t, priority |-> NORMAL,
                                            at |-> m.now, sub |-> m.stamp]},
                         !.task[t] = NewTask(t),
                         !.task_map = @ \cup {t},
                         !.stamp = @ + 1,
                         !.pc[Producer] = "put_notify"])

\* put, inside async with self._not_empty; the producer then puts the next
\* task
PutNotify(m) ==
    ReleaseCond([Notify(m) EXCEPT
                   !.next = @ + 1,
                   !.pc[Producer] = IF m.next >= NumQueueTasks
                                    THEN "done" ELSE "put"])

\* get, inside async with self._lock: the heap's smallest entry whose task
\* is not being processed is popped and returned; otherwise the caller
\* goes on to wait_for(self._not_empty.wait(), timeout)
GetBody(m, c) ==
    LET cands == {e \in m.queue : e.task \notin m.processing}
    IN  IF cands # {}
        THEN LET e == CHOOSE x \in cands :
                          \A o \in cands \ {x} : OrderedBefore(x, o)
             IN  ReleaseCond(ReleaseLock(
                   [m EXCEPT !.queue = @ \ {e},
                             !.processing = @ \cup {e.task},
                             !.cur[c] = e,
                             !.pc[c] = "process"]))
        ELSE [ReleaseLock(m) EXCEPT !.pc[c] = "wait_start",
                                    !.ready = @ \cup {c}]

\* task_done, inside async with self._lock
TaskDoneBody(m, c) ==
    LET t == m.cur[c].task
        task == m.task[t]
        m1 == [m EXCEPT !.processing = @ \ {t}]
    IN  IF task.status \notin {COMPLETED, FAILED} /\ should_retry(task)
        THEN [m1 EXCEPT !.queue = @ \cup
                           {[task |-> t, priority |-> RetryPriority(task),
                             at |-> m.now + get_retry_delay(task),
                             sub |-> m.stamp]},
                        !.stamp = @ + 1,
                        !.pc[c] = "td_notify"]
        ELSE ReleaseLock([m1 EXCEPT !.task_map = @ \ {t},
                                    !.cur[c] = NoEntry,
                                    !.pc[c] = "get"])

\* task_done's retry path, inside async with self._not_empty, itself
\* inside async with self._lock
TaskDoneNotify(m, c) ==
    ReleaseLock(ReleaseCond([Notify(m) EXCEPT !.cur[c] = NoEntry,
                                              !.pc[c] = "get"]))

\* what caller c does once it has the lock it stood at, up to its next
\* async with or suspension
AfterAcquire(m, c) ==
    CASE m.pc[c] = "put" -> PutBody(m)
      [] m.pc[c] = "put_notify" -> PutNotify(m)
      [] m.pc[c] = "get" -> [m EXCEPT !.pc[c] = "get_lock"]
      [] m.pc[c] = "get_lock" -> GetBody(m, c)
      [] m.pc[c] = "reacquire" ->
            [m EXCEPT !.pc[c] = "wait_done", !.ready = @ \cup {c}]
      [] m.pc[c] = "timed_out_reacquire" ->
            [m EXCEPT !.pc[c] = "timed_out", !.ready = @ \cup {c}]
      [] m.pc[c] = "task_done" -> TaskDoneBody(m, c)
      [] m.pc[c] = "td_notify" -> TaskDoneNotify(m, c)

\* Lock.acquire: taken at once when the lock is free (or was passed to the
\* caller by release); otherwise the caller joins the lock's waiters
Acquire(m, c) ==
    IF m.pc[c] \in LockPoints
    THEN IF m.lock_holder \in {Free, c}
         THEN [m EXCEPT !.lock_holder = c]
         ELSE IF InSeq(m.lock_waiters, c) THEN m
              ELSE [m EXCEPT !.lock_waiters = Append(@, c)]
    ELSE IF m.cond_holder \in {Free, c}
         THEN [m EXCEPT !.cond_holder = c]
         ELSE IF InSeq(m.cond_waiters, c) THEN m
              ELSE [m EXCEPT !.cond_waiters = Append(@, c)]

Acquired(m, c) ==
    IF m.pc[c] \in LockPoints THEN m.lock_holder \in {Free, c}
    ELSE m.cond_holder \in {Free, c}

RECURSIVE RunToSuspension(_, _)

\* the event loop runs caller c until it suspends
RunToSuspension(m, c) ==
    IF m.pc[c] \notin LockPoints \cup CondPoints THEN m
    ELSE IF Acquired(m, c)
         THEN RunToSuspension(AfterAcquire(Acquire(m, c), c), c)
         ELSE Acquire(m, c)

\* a ready caller that does not stand at a lock is resumed
Resume(m, c) ==
    CASE m.pc[c] = "wait_start" ->
            [ReleaseCond(m) EXCEPT !.waiters = Append(@, c),
                                   !.pc[c] = "waiting"]
      [] m.pc[c] = "wait_done" -> [m EXCEPT !.pc[c] = "get_lock"]
      [] m.pc[c] = "timed_out" -> [ReleaseCond(m) EXCEPT !.pc[c] = "get"]
      [] OTHER -> m

----------------------------------------------------------------------------

InitCore ==
    /\ tasks = [t \in Tasks |-> NoRow]
    /\ queue = {}
    /\ progress = [pending |-> 0, processing |-> 0, completed |-> 0,
                   failed |-> 0, total |-> 0]
    /\ session = [completed |-> 0, failed |-> 0]
    /\ now = 0
    /\ stamp = 1
    /\ lock = Free
    /\ pc = [w \in Workers |-> "idle"]
    /\ cur = [w \in Workers |-> NoTask]
    /\ running = [w \in Workers |-> TRUE]
    /\ cancelled = [w \in Workers |-> FALSE]
    /\ ppc = "idle"
    /\ ptask = NoTask
    /\ cpc = "idle"
    /\ ctask = NoTask
    /\ ncancel = 0
    /\ cret = "none"
    /\ snap = <<>>
    /\ raised = "none"
    /\ doneRaised = {}
    /\ nfault = 0
    /\ nfail = 0
    /\ hist = [t \in Tasks |-> [deq |-> 0, req |-> 0, att |-> 0,
                                permanent |-> FALSE, delay |-> 0]]
    /\ ncrash = 0
    /\ orphaned = {}
    /\ wpc = "idle"
    /\ wsize = 0
    /\ ndup = 0
    /\ taskq = TaskQueueInit
    /\ spc = "idle"
    /\ polling = {}
    /\ state = "none"
    /\ execution_mode = "none"
    /\ scaler_workers = {}
    /\ last_scaling_time = None
    /\ scaling_history = 0
    /\ resource_history = <<>>
    /\ current_phase_index = 0
    /\ phase_start_time = None
    /\ perf_active = None
    /\ sclock = 0
    /\ dynamic_decision = NoDecision
    /\ fused_decision = NoDecision
    /\ scheduling_decisions = 0
    /\ system_metrics = NoMetrics
    /\ is_running = FALSE
    /\ analyzed = FALSE

Init ==
    /\ InitCore
    /\ fn_args = NoArgs
    /\ fn_result = NoResult

workerVars == <<pc, cur, running, cancelled>>

producerVars == <<ppc, ptask>>

cancelVars == <<cpc, ctask, ncancel, cret>>

faultVars == <<snap, raised, doneRaised, nfault>>

histVars == <<nfail, hist>>

clockVars == <<now, stamp>>

restartVars == <<ncrash, orphaned>>

waitVars == <<wpc, wsize>>

shutdownVars == <<spc, polling>>

schedVars == <<state, execution_mode, scaler_workers, last_scaling_time,
               scaling_history, resource_history, current_phase_index,
               phase_start_time, perf_active, sclock, dynamic_decision,
               fused_decision, scheduling_decisions, system_metrics, is_running, analyzed>>

fnVars == <<fn_args, fn_result>>

envVars == <<restartVars, waitVars, ndup, taskq, shutdownVars, schedVars, fnVars>>

\* everything that is not the hybrid scheduler's
queueSide == <<tasks, queue, progress, session, clockVars, lock, workerVars,
               producerVars, cancelVars, faultVars, histVars, restartVars,
               waitVars, ndup, taskq, shutdownVars, fnVars>>

----------------------------------------------------------------------------
(* SQLiteTaskQueue.put -> QueueRepository.enqueue *)

\* async with self._lock; BEGIN EXCLUSIVE; TaskRepository.create (INSERT
\* INTO tasks ...; commit)
PutCreate(t, p) ==
    /\ ppc = "idle"
    /\ LockAvailable(Producer)
    /\ tasks[t].status = Absent
    /\ \A u \in Tasks : u < t => tasks[u].status # Absent
    /\ tasks' = TaskRepoCreate(tasks, t, p)
    /\ ptask' = [NoTask EXCEPT !.id = t, !.status = PENDING, !.priority = p]
    /\ ppc' = "put_insert"
    /\ lock' = Producer
    /\ snap' = store
    /\ raised' = "none"
    /\ UNCHANGED <<envVars, queue, progress, session, clockVars, workerVars, cancelVars,
                   doneRaised, nfault, histVars>>

\* INSERT INTO task_queue ...; _update_progress(pending_delta=1); commit
PutInsert ==
    /\ ppc = "put_insert"
    /\ queue' = queue \cup {[task |-> ptask.id, priority |-> ptask.priority,
                             at |-> now, sub |-> stamp]}
    /\ stamp' = stamp + 1
    /\ progress' = UpdateProgress(progress, 1, 0, 0, 0)
    /\ ppc' = "idle"
    /\ ptask' = NoTask
    /\ lock' = Free
    /\ snap' = <<>>
    /\ UNCHANGED <<envVars, tasks, session, now, workerVars, cancelVars, raised, doneRaised,
                   nfault, histVars>>

----------------------------------------------------------------------------
(* Worker.start -> SQLiteTaskQueue.get -> QueueRepository.dequeue *)

\* async with self._lock; BEGIN EXCLUSIVE; SELECT ... LIMIT 1; _row_to_task
GetSelect(w) ==
    /\ pc[w] = "idle"
    /\ running[w]
    /\ LockAvailable(w)
    /\ DequeueCandidates # {}
    /\ LET row == DequeueSelect
       IN  cur' = [cur EXCEPT ![w] = RowToTask(row.task, row.sub)]
    /\ pc' = [pc EXCEPT ![w] = "dq_write"]
    /\ lock' = w
    /\ snap' = store
    /\ raised' = "none"
    /\ UNCHANGED <<envVars, tasks, queue, progress, session, clockVars, running,
                   cancelled, producerVars, cancelVars, doneRaised, nfault, histVars>>

\* DELETE FROM task_queue WHERE queue_id = ?; task.mark_in_progress();
\* TaskRepository.update (UPDATE tasks ...; commit)
DqWrite(w) ==
    /\ pc[w] = "dq_write"
    /\ LET task == mark_in_progress(cur[w])
       IN  /\ queue' = {q \in queue : q.sub # cur[w].queue_id}
           /\ tasks' = TaskRepoUpdate(tasks, task)
           /\ cur' = [cur EXCEPT ![w] = task]
    /\ pc' = [pc EXCEPT ![w] = "dq_progress"]
    /\ UNCHANGED <<envVars, progress, session, clockVars, lock, running, cancelled,
                   producerVars, cancelVars, faultVars, histVars>>

\* _update_progress(pending_delta=-1, processing_delta=1); commit; the
\* lock is released and get returns the task
DqProgress(w) ==
    /\ pc[w] = "dq_progress"
    /\ progress' = UpdateProgress(progress, 0 - 1, 1, 0, 0)
    /\ pc' = [pc EXCEPT ![w] = "process"]
    /\ lock' = Free
    /\ hist' = [hist EXCEPT ![cur[w].id].deq = @ + 1]
    /\ nfail' = nfail
    /\ snap' = <<>>
    /\ UNCHANGED <<envVars, tasks, queue, session, clockVars, cur, running, cancelled,
                   producerVars, cancelVars, raised, doneRaised, nfault>>

----------------------------------------------------------------------------
(* Worker._process_task *)

Outcomes == {"ok", "transient", "permanent"}

\* task.mark_in_progress(); generate_for_endpoint returns or raises;
\* mark_completed / mark_failed(e, recoverable=_is_recoverable_error(e))
Process(w, outcome) ==
    /\ pc[w] = "process"
    /\ outcome # "ok" => nfail < MaxFailures
    /\ nfail' = IF outcome = "ok" THEN nfail ELSE nfail + 1
    /\ LET task == mark_in_progress(cur[w])
       IN  cur' = [cur EXCEPT ![w] =
                     IF outcome = "ok" THEN mark_completed(task)
                     ELSE mark_failed(task, outcome = "transient")]
    /\ pc' = [pc EXCEPT ![w] = "td_update"]
    /\ hist' = [hist EXCEPT ![cur[w].id].att = @ + 1,
                            ![cur[w].id].permanent = @ \/ outcome = "permanent"]
    /\ UNCHANGED <<envVars, tasks, queue, progress, session, clockVars, lock, running,
                   cancelled, producerVars, cancelVars, faultVars>>

\* what the worker does once task_done has returned: _current_task = None,
\* then the loop, or the pending CancelledError is re-raised
AfterTaskDone(w) ==
    /\ cur' = [cur EXCEPT ![w] = NoTask]
    /\ pc' = [pc EXCEPT ![w] = IF cancelled[w] THEN "stopped" ELSE "idle"]

----------------------------------------------------------------------------
(* SQLiteTaskQueue.task_done *)

\* async with self._lock: TaskRepository.update(task)
TdUpdate(w) ==
    /\ pc[w] = "td_update"
    /\ LockAvailable(w)
    /\ tasks' = TaskRepoUpdate(tasks, cur[w])
    /\ IF cur[w].status \in {COMPLETED, FAILED}
       THEN /\ pc' = [pc EXCEPT ![w] = "td_session"]
            /\ cur' = cur
       ELSE IF cur[w].status = RETRYING /\ should_retry(cur[w])
       THEN /\ pc' = [pc EXCEPT ![w] = "rq_update"]
            /\ cur' = cur
       ELSE AfterTaskDone(w)
    /\ UNCHANGED <<envVars, queue, progress, session, clockVars, lock, running,
                   cancelled, producerVars, cancelVars, faultVars, histVars>>

\* _update_session_progress: the in-memory SessionInfo counters, then
\* SessionRepository.update (UPDATE sessions SET updated_at, configuration,
\* metadata) under the lock
TdSession(w) ==
    /\ pc[w] = "td_session"
    /\ LockAvailable(w)
    /\ session' = IF cur[w].status = COMPLETED
                  THEN [session EXCEPT !.completed = @ + 1]
                  ELSE [session EXCEPT !.failed = @ + 1]
    /\ AfterTaskDone(w)
    /\ UNCHANGED <<envVars, tasks, queue, progress, clockVars, lock, running, cancelled,
                   producerVars, cancelVars, faultVars, histVars>>

----------------------------------------------------------------------------
(* QueueRepository.requeue *)

\* async with self._lock; BEGIN EXCLUSIVE; task.status = RETRYING;
\* TaskRepository.update (UPDATE tasks ...; commit)
RqUpdate(w) ==
    /\ pc[w] = "rq_update"
    /\ LockAvailable(w)
    /\ LET task == [cur[w] EXCEPT !.status = RETRYING]
       IN  /\ tasks' = TaskRepoUpdate(tasks, task)
           /\ cur' = [cur EXCEPT ![w] = task]
    /\ pc' = [pc EXCEPT ![w] = "rq_insert"]
    /\ lock' = w
    /\ snap' = store
    /\ raised' = "none"
    /\ UNCHANGED <<envVars, queue, progress, session, clockVars, running, cancelled,
                   producerVars, cancelVars, doneRaised, nfault, histVars>>

\* INSERT INTO task_queue (retry_priority, now + delay);
\* _update_progress(processing_delta=-1, pending_delta=1); commit
RqInsert(w) ==
    /\ pc[w] = "rq_insert"
    /\ queue' = queue \cup {[task |-> cur[w].id,
                             priority |-> RetryPriority(cur[w]),
                             at |-> now + get_retry_delay(cur[w]),
                             sub |-> stamp]}
    /\ stamp' = stamp + 1
    /\ progress' = UpdateProgress(progress, 1, 0 - 1, 0, 0)
    /\ lock' = Free
    /\ hist' = [hist EXCEPT ![cur[w].id].req = @ + 1,
                            ![cur[w].id].delay = get_retry_delay(cur[w])]
    /\ nfail' = nfail
    /\ AfterTaskDone(w)
    /\ snap' = <<>>
    /\ UNCHANGED <<envVars, tasks, session, now, running, cancelled, producerVars,
                   cancelVars, raised, doneRaised, nfault>>

----------------------------------------------------------------------------
(* SQLiteTaskQueue.cancel_task (takes no lock) *)

\* task = await self.task_repo.get(task_id); the status test
CancelRead(t) ==
    /\ cpc = "idle"
    /\ ncancel < MaxCancels
    /\ ncancel' = ncancel + 1
    /\ tasks[t].status \in {PENDING, RETRYING}
    /\ ctask' = RowToTask(t, 0)
    /\ cpc' = "c_remove"
    /\ cret' = "none"
    /\ UNCHANGED <<envVars, tasks, queue, progress, session, clockVars, lock, workerVars,
                   producerVars, faultVars, histVars>>

\* if not task: return False; if task.status not in [PENDING, RETRYING]:
\* return False
CancelReject(t) ==
    /\ cpc = "idle"
    /\ ncancel < MaxCancels
    /\ ncancel' = ncancel + 1
    /\ tasks[t].status \notin {PENDING, RETRYING}
    /\ cret' = "false"
    /\ UNCHANGED <<envVars, tasks, queue, progress, session, clockVars, lock,
                   workerVars, producerVars, cpc, ctask, faultVars, histVars>>

\* QueueRepository.remove_from_queue: DELETE FROM task_queue WHERE task_id
CancelRemove ==
    /\ cpc = "c_remove"
    /\ queue' = {q \in queue : q.task # ctask.id}
    /\ cpc' = "c_update"
    /\ UNCHANGED <<envVars, tasks, progress, session, clockVars, lock, workerVars,
                   producerVars, ctask, ncancel, cret, faultVars, histVars>>

\* task.status = CANCELLED; TaskRepository.update(task)
CancelUpdate ==
    /\ cpc = "c_update"
    /\ tasks' = TaskRepoUpdate(tasks, [ctask EXCEPT !.status = CANCELLED])
    /\ cpc' = "idle"
    /\ ctask' = NoTask
    /\ ncancel' = ncancel
    /\ cret' = "true"
    /\ UNCHANGED <<envVars, queue, progress, session, clockVars, lock, workerVars,
                   producerVars, faultVars, histVars>>

----------------------------------------------------------------------------
(* The clock *)

\* Time is observed only through q.scheduled_at <= now, so the clock is
\* advanced only while some queue row is scheduled in the future.
Tick ==
    /\ now < MaxTime
    /\ \E q \in queue : q.at > now
    /\ now' = now + 1
    /\ UNCHANGED <<envVars, tasks, queue, progress, session, stamp, lock, workerVars,
                   producerVars, cancelVars, faultVars, histVars>>

----------------------------------------------------------------------------

Put == \/ \E t \in Tasks, p \in PutPriorities : PutCreate(t, p)
       \/ PutInsert

Get(w) == GetSelect(w) \/ DqWrite(w) \/ DqProgress(w)

ProcessTask(w) == \E o \in Outcomes : Process(w, o)

TaskDone(w) == TdUpdate(w) \/ TdSession(w) \/ RqUpdate(w) \/ RqInsert(w)

WorkerStep(w) == Get(w) \/ ProcessTask(w) \/ TaskDone(w)

CancelTask ==
    \/ \E t \in Tasks : CancelRead(t) \/ CancelReject(t)
    \/ CancelRemove
    \/ CancelUpdate

NextCore ==
    \/ Put
    \/ \E w \in Workers : WorkerStep(w)
    \/ Tick

Next ==
    \/ NextCore
    \/ CancelTask

Spec == Init /\ [][Next]_vars

----------------------------------------------------------------------------
(* Store errors: a statement or commit of the unit about to run raises.     *)
(* exclusive_transaction rolls back what is not yet committed, which is the *)
(* failing unit alone: TaskRepository.create and TaskRepository.update have *)
(* already committed the units before it.                                   *)

\* QueueRepository.enqueue raises after TaskRepository.create; put catches
\* the exception and returns False
FailEnqueue ==
    /\ ppc = "put_insert"
    /\ nfault < MaxFaults
    /\ nfault' = nfault + 1
    /\ raised' = "enqueue"
    /\ ppc' = "idle"
    /\ ptask' = NoTask
    /\ lock' = Free
    /\ UNCHANGED <<envVars, tasks, queue, progress, session, clockVars, workerVars,
                   cancelVars, snap, doneRaised, histVars>>

\* QueueRepository.dequeue raises; get has no handler, Worker.start logs
\* "crashed" and re-raises: the worker's loop is over
FailDequeue(w) ==
    /\ pc[w] \in {"dq_write", "dq_progress"}
    /\ nfault < MaxFaults
    /\ nfault' = nfault + 1
    /\ raised' = "dequeue"
    /\ pc' = [pc EXCEPT ![w] = "crashed"]
    /\ lock' = Free
    /\ UNCHANGED <<envVars, tasks, queue, progress, session, clockVars, cur, running,
                   cancelled, producerVars, cancelVars, snap, doneRaised, histVars>>

\* task_done raises (TaskRepository.update, SessionRepository.update or
\* QueueRepository.requeue): it logs and re-raises, _process_task's finally
\* block lets it through, Worker.start re-raises
FailTaskDone(w) ==
    /\ pc[w] \in {"td_update", "td_session", "rq_update", "rq_insert"}
    /\ pc[w] \in {"td_update", "td_session", "rq_update"} => lock = Free
    /\ nfault < MaxFaults
    /\ nfault' = nfault + 1
    /\ raised' = IF pc[w] = "rq_insert" THEN "requeue" ELSE "task_done"
    /\ doneRaised' = doneRaised \cup {cur[w].id}
    /\ pc' = [pc EXCEPT ![w] = "crashed"]
    /\ lock' = Free
    /\ UNCHANGED <<envVars, tasks, queue, progress, session, clockVars, cur, running,
                   cancelled, producerVars, cancelVars, snap, histVars>>

StoreError ==
    \/ FailEnqueue
    \/ \E w \in Workers : FailDequeue(w)
    \/ \E w \in Workers : FailTaskDone(w)

NextFault ==
    \/ NextCore
    \/ StoreError

SpecFault == Init /\ [][NextFault]_vars

----------------------------------------------------------------------------
(* WorkerPool.scale_workers, reducing the pool: worker = self.workers.pop(); *)
(* worker.stop(); task.cancel(); await asyncio.gather(task)                  *)

LiveWorkers == {w \in Workers : pc[w] \notin {"stopped", "crashed"}}

LastWorker == CHOOSE w \in LiveWorkers : \A v \in LiveWorkers : v <= w

\* CancelledError is raised in the worker at the await it is suspended in.
\* In generate_for_endpoint, _process_task marks the task failed
\* (recoverable) and its finally block runs task_done; at any other await
\* (in get, or in the finally block's task_done) nothing handles it.
ScaleDown ==
    /\ Cardinality(LiveWorkers) > 1
    /\ LET w == LastWorker
       IN  /\ ~cancelled[w]
           /\ running' = [running EXCEPT ![w] = FALSE]
           /\ cancelled' = [cancelled EXCEPT ![w] = TRUE]
           /\ IF pc[w] = "process"
              THEN /\ cur' = [cur EXCEPT ![w] =
                                mark_failed(mark_in_progress(cur[w]), TRUE)]
                   /\ pc' = [pc EXCEPT ![w] = "td_update"]
                   /\ hist' = [hist EXCEPT ![cur[w].id].att = @ + 1]
                   /\ lock' = lock
              ELSE /\ cur' = [cur EXCEPT ![w] =
                                IF pc[w] \in {"idle", "dq_write"} THEN NoTask
                                ELSE cur[w]]
                   /\ pc' = [pc EXCEPT ![w] = "stopped"]
                   /\ hist' = hist
                   /\ lock' = IF lock = w THEN Free ELSE lock
    /\ UNCHANGED <<envVars, tasks, queue, progress, session, clockVars, producerVars,
                   cancelVars, faultVars, nfail>>

NextScale ==
    \/ NextCore
    \/ ScaleDown

SpecScale == Init /\ [][NextScale]_vars

----------------------------------------------------------------------------
(* The process dies and a new one resumes the session: a new              *)
(* SQLiteTaskQueue(session_id) over the same database file, initialize(),  *)
(* new workers.  What was committed stays; every in-memory object is new.  *)

MaxCrashes == 1

\* _create_or_resume_session: session_repo.get finds the session and keeps
\* it (completed_tasks and failed_tasks are read from the progress row); no
\* statement touches tasks or task_queue
CrashRestart ==
    /\ ncrash < MaxCrashes
    /\ ncrash' = ncrash + 1
    /\ orphaned' = orphaned \cup {t \in Tasks : tasks[t].status = IN_PROGRESS}
    /\ session' = [completed |-> progress.completed, failed |-> progress.failed]
    /\ lock' = Free
    /\ pc' = [w \in Workers |-> "idle"]
    /\ cur' = [w \in Workers |-> NoTask]
    /\ running' = [w \in Workers |-> TRUE]
    /\ cancelled' = [w \in Workers |-> FALSE]
    /\ ppc' = "idle"
    /\ ptask' = NoTask
    /\ snap' = <<>>
    /\ raised' = "none"
    /\ UNCHANGED <<schedVars, fnVars, tasks, queue, progress, clockVars, cancelVars, doneRaised,
                   nfault, histVars, waitVars, ndup, taskq, shutdownVars>>

NextCrash ==
    \/ NextCore
    \/ CrashRestart

SpecCrash == Init /\ [][NextCrash]_vars

----------------------------------------------------------------------------
(* WorkerPool.wait_for_completion -> SQLiteTaskQueue.wait_empty, called    *)
(* once the tasks have been handed to put                                  *)

AllPut == ppc = "idle" /\ \A t \in Tasks : tasks[t].status # Absent

\* queue_size = await self.queue_repo.get_queue_size(self.session_id)
WaitReadQueue ==
    /\ wpc = "idle"
    /\ AllPut
    /\ wsize' = Cardinality(queue)
    /\ wpc' = "w_processing"
    /\ UNCHANGED <<schedVars, fnVars, tasks, queue, progress, session, clockVars, lock, workerVars,
                   producerVars, cancelVars, faultVars, histVars, restartVars, ndup, taskq,
                   shutdownVars>>

\* processing_count = len(await self.get_processing_tasks()); return True
\* if both are 0, else sleep and loop
WaitReadProcessing ==
    /\ wpc = "w_processing"
    /\ wpc' = IF wsize = 0 /\ CountOfStatus(IN_PROGRESS) = 0
              THEN "returned_true" ELSE "idle"
    /\ wsize' = 0
    /\ UNCHANGED <<schedVars, fnVars, tasks, queue, progress, session, clockVars, lock, workerVars,
                   producerVars, cancelVars, faultVars, histVars, restartVars, ndup, taskq,
                   shutdownVars>>

WaitEmpty == WaitReadQueue \/ WaitReadProcessing

NextWait ==
    \/ NextCore
    \/ WaitEmpty

SpecWait == Init /\ [][NextWait]_vars

----------------------------------------------------------------------------
(* SQLiteTaskQueue.put of a task whose task_id is already in the store     *)

MaxDuplicates == 2

\* async with self._lock; BEGIN EXCLUSIVE; TaskRepository.create raises at
\* its INSERT and rolls back, exclusive_transaction rolls back and
\* re-raises, enqueue re-raises, put catches the exception and returns False
PutDuplicate(t, p) ==
    /\ ppc = "idle"
    /\ LockAvailable(Producer)
    /\ TaskIdPresent(tasks, t)
    /\ ndup < MaxDuplicates
    /\ ndup' = ndup + 1
    /\ tasks' = TaskRepoCreate(tasks, t, p)
    /\ snap' = store
    /\ raised' = "duplicate"
    /\ UNCHANGED <<schedVars, fnVars, restartVars, waitVars, shutdownVars, queue, progress, session, clockVars, lock,
                   workerVars, producerVars, cancelVars, doneRaised, nfault,
                   histVars, taskq>>

NextDuplicate ==
    \/ NextCore
    \/ \E t \in Tasks, p \in PutPriorities : PutDuplicate(t, p)

SpecDuplicate == Init /\ [][NextDuplicate]_vars

----------------------------------------------------------------------------
(* WorkerPool.shutdown(timeout)                                            *)

Done(w) == pc[w] \in {"stopped", "crashed"}

\* variant: the wait ends as soon as one worker task is done
GatheredFirstCompleted == \E w \in Workers : Done(w)

\* asyncio.gather(*self._tasks, return_exceptions=True) has completed
Gathered == \A w \in Workers : Done(w)

\* self._running = False; for worker in self.workers: worker.stop().  A
\* worker that is not processing is inside queue.get(timeout=1.0).
ShutdownSignal ==
    /\ spc = "idle"
    /\ spc' = "waiting"
    /\ running' = [w \in Workers |-> FALSE]
    /\ polling' = {w \in Workers : pc[w] = "idle"}
    /\ UNCHANGED <<schedVars, fnVars, tasks, queue, progress, session, clockVars, lock, pc, cur,
                   cancelled, producerVars, cancelVars, faultVars, histVars,
                   restartVars, waitVars, ndup, taskq>>

\* a worker that was inside get when stop() was called still gets a task
\* from it (same statements as GetSelect)
GetSelectStopping(w) ==
    /\ w \in polling
    /\ pc[w] = "idle"
    /\ LockAvailable(w)
    /\ DequeueCandidates # {}
    /\ LET row == DequeueSelect
       IN  cur' = [cur EXCEPT ![w] = RowToTask(row.task, row.sub)]
    /\ pc' = [pc EXCEPT ![w] = "dq_write"]
    /\ lock' = w
    /\ snap' = store
    /\ raised' = "none"
    /\ polling' = polling \ {w}
    /\ UNCHANGED <<schedVars, fnVars, tasks, queue, progress, session, clockVars, running,
                   cancelled, producerVars, cancelVars, doneRaised, nfault,
                   histVars, restartVars, waitVars, ndup, taskq, spc>>

\* get returns None at its timeout, or _process_task has returned: the test
\* of "while self._running" fails and Worker.start returns
WorkerExit(w) ==
    /\ pc[w] = "idle"
    /\ ~running[w]
    /\ pc' = [pc EXCEPT ![w] = "stopped"]
    /\ polling' = polling \ {w}
    /\ UNCHANGED <<schedVars, fnVars, tasks, queue, progress, session, clockVars, lock, cur,
                   running, cancelled, producerVars, cancelVars, faultVars,
                   histVars, restartVars, waitVars, ndup, taskq, spc>>

\* wait_for(gather(...), timeout) returns: every worker task is done
ShutdownGraceful ==
    /\ spc = "waiting"
    /\ Gathered
    /\ spc' = "returned"
    /\ UNCHANGED <<schedVars, fnVars, tasks, queue, progress, session, clockVars, lock, workerVars,
                   producerVars, cancelVars, faultVars, histVars, restartVars,
                   waitVars, ndup, taskq, polling>>

\* the timeout expires: wait_for cancels the gather, which cancels every
\* worker task that is not done.  CancelledError is raised in each at the
\* await it is suspended in (see ScaleDown).
ShutdownTimeout ==
    /\ spc = "waiting"
    /\ ~Gathered
    /\ spc' = "cancelling"
    /\ polling' = {}
    /\ cancelled' = [w \in Workers |-> cancelled[w] \/ ~Done(w)]
    /\ pc' = [w \in Workers |->
                IF Done(w) THEN pc[w]
                ELSE IF pc[w] = "process" THEN "td_update" ELSE "stopped"]
    /\ cur' = [w \in Workers |->
                IF pc[w] = "process"
                THEN mark_failed(mark_in_progress(cur[w]), TRUE)
                ELSE IF pc[w] \in {"idle", "dq_write"} THEN NoTask
                ELSE cur[w]]
    /\ hist' = [t \in Tasks |->
                  IF \E w \in Workers : pc[w] = "process" /\ cur[w].id = t
                  THEN [hist[t] EXCEPT !.att = @ + 1]
                  ELSE hist[t]]
    /\ lock' = IF lock \in Workers THEN Free ELSE lock
    /\ UNCHANGED <<schedVars, fnVars, tasks, queue, progress, session, clockVars, running,
                   producerVars, cancelVars, faultVars, nfail, restartVars,
                   waitVars, ndup, taskq>>

\* every cancelled worker task has ended: the pool is cleared and shutdown
\* returns
ShutdownCancelled ==
    /\ spc = "cancelling"
    /\ Gathered
    /\ spc' = "returned"
    /\ UNCHANGED <<schedVars, fnVars, tasks, queue, progress, session, clockVars, lock, workerVars,
                   producerVars, cancelVars, faultVars, histVars, restartVars,
                   waitVars, ndup, taskq, polling>>

Shutdown ==
    \/ ShutdownSignal
    \/ ShutdownGraceful
    \/ ShutdownTimeout
    \/ ShutdownCancelled

NextShutdown ==
    \/ NextCore
    \/ Shutdown
    \/ \E w \in Workers : GetSelectStopping(w) \/ WorkerExit(w)

SpecShutdown == Init /\ [][NextShutdown]_vars

----------------------------------------------------------------------------
(* SQLiteTaskQueue.clear -> QueueRepository.clear_queue (takes no lock) *)

\* DELETE FROM task_queue WHERE session_id = ?; commit
ClearQueue ==
    /\ queue # {}
    /\ queue' = {}
    /\ UNCHANGED <<schedVars, fnVars, tasks, progress, session, clockVars,
                   lock, workerVars, producerVars, cancelVars, faultVars,
                   histVars, restartVars, waitVars, ndup, taskq, shutdownVars>>

NextClear ==
    \/ NextCore
    \/ ClearQueue

SpecClear == Init /\ [][NextClear]_vars

----------------------------------------------------------------------------
(* SqliteOrchestrator._process_tasks_with_scheduler: the worker coroutine   *)
(* the scheduler's worker_factory creates                                   *)

\* settings.llm_max_retries
llm_max_retries == 3

\* generator.generate returns or raises; on an exception the task gets
\* FAILED and a TaskError, and with retry_count < llm_max_retries its
\* retry_count is raised, its status set to PENDING and it is put again
SchedulerWorkerProcess(w, outcome) ==
    /\ pc[w] = "process"
    /\ outcome # "ok" => nfail < MaxFailures
    /\ nfail' = IF outcome = "ok" THEN nfail ELSE nfail + 1
    /\ LET task == cur[w]
           failed == [task EXCEPT !.status = FAILED, !.has_error = TRUE,
                                  !.recoverable = TRUE]
           again == task.retry_count < llm_max_retries
       IN  /\ cur' = [cur EXCEPT ![w] =
                        IF outcome = "ok"
                        THEN [task EXCEPT !.status = COMPLETED]
                        ELSE IF again
                             THEN [failed EXCEPT
                                     !.status = PENDING,
                                     !.retry_count = task.retry_count + 1]
                             ELSE failed]
           /\ pc' = [pc EXCEPT ![w] = IF outcome # "ok" /\ again
                                      THEN "sw_put" ELSE "td_update"]
    /\ hist' = [hist EXCEPT ![cur[w].id].att = @ + 1]
    /\ UNCHANGED <<envVars, tasks, queue, progress, session, clockVars, lock,
                   running, cancelled, producerVars, cancelVars, faultVars>>

\* await worker_queue.put(task) of the task in hand: enqueue runs
\* TaskRepository.create first, whose INSERT raises for a task_id that is
\* stored already; put catches the exception and returns False
SchedulerWorkerPut(w) ==
    /\ pc[w] = "sw_put"
    /\ LockAvailable(w)
    /\ ppc = "idle"
    /\ IF TaskIdPresent(tasks, cur[w].id)
       THEN UNCHANGED <<tasks, queue, progress, stamp>>
       ELSE /\ tasks' = TaskRepoCreate(tasks, cur[w].id, cur[w].priority)
            /\ queue' = queue \cup {[task |-> cur[w].id,
                                     priority |-> cur[w].priority,
                                     at |-> now, sub |-> stamp]}
            /\ stamp' = stamp + 1
            /\ progress' = UpdateProgress(progress, 1, 0, 0, 0)
    /\ pc' = [pc EXCEPT ![w] = "td_update"]
    /\ UNCHANGED <<envVars, session, now, lock, cur, running, cancelled,
                   producerVars, cancelVars, faultVars, histVars>>

\* get(timeout=1.0) returned None: the worker leaves its loop
SchedulerWorkerExit(w) ==
    /\ pc[w] = "idle"
    /\ LockAvailable(w)
    /\ DequeueCandidates = {}
    /\ pc' = [pc EXCEPT ![w] = "stopped"]
    /\ UNCHANGED <<envVars, tasks, queue, progress, session, clockVars, lock,
                   cur, running, cancelled, producerVars, cancelVars,
                   faultVars, histVars>>

SchedulerWorkerStep(w) ==
    \/ Get(w)
    \/ \E o \in {"ok", "raises"} : SchedulerWorkerProcess(w, o)
    \/ SchedulerWorkerPut(w)
    \/ TdUpdate(w)
    \/ TdSession(w)
    \/ SchedulerWorkerExit(w)

NextSchedulerWorker ==
    \/ Put
    \/ \E w \in Workers : SchedulerWorkerStep(w)

SpecSchedulerWorker == Init /\ [][NextSchedulerWorker]_vars

----------------------------------------------------------------------------
(* HybridIntelligentScheduler (scheduling/hybrid_scheduler.py) with its     *)
(* DynamicWorkerScaler (scheduling/dynamic_scaler.py) and                   *)
(* ProgressiveScheduler (scheduling/progressive_scheduler.py).  The         *)
(* scheduler is built with its default strategy; a worker is whatever the   *)
(* worker_factory returns, its attributes are read once per tick.           *)

\* the scheduler's clock stops here
MaxSchedClock == 100

\* no scale-up is modelled beyond this many worker entries
MaxScalerWorkers == 6

FAST == "fast"

SMART == "smart"

AUTO == "auto"

ExecutionModes == {FAST, SMART, AUTO}

MAINTAIN == "maintain"

SCALE_UP == "scale_up"

SCALE_DOWN == "scale_down"

\* DynamicWorkerScaler.scaling_cooldown, seconds
scaling_cooldown == 60

\* psutil.cpu_percent(interval=1) blocks for this long in get_system_metrics
CpuSampleSeconds == 1

\* SystemResourceMetrics.cpu_threshold
cpu_threshold == 80

\* SystemResourceMetrics.memory_threshold_mb
memory_threshold_mb == 1000

\* APIPattern.safe_start_workers
safe_start_workers == 2

\* APIPattern.recommended_max_workers
recommended_max_workers == 4

\* APIPattern.optimal_workers
optimal_workers == 3

\* ExecutionStrategy.min_workers
min_workers == 1

\* values psutil reports for the CPU usage, percent
CpuSamples == {50, 90}

\* values psutil reports for the available memory, MB
MemorySamples == {500, 2000}

\* sums of WorkerMetrics.pending_tasks a tick may read
PendingTotals == {0, 50, 100}

\* sums of WorkerMetrics.tasks_completed a tick may read
CompletedTotals == {0, 30}

Max(a, b) == IF a > b THEN a ELSE b

\* _create_default_strategy, then _adjust_strategy_based_on_pattern
initial_workers(m) == IF m = AUTO THEN safe_start_workers ELSE 1

max_workers(m) == IF m = AUTO THEN recommended_max_workers ELSE 1

\* thresholds in tenths
scale_up_threshold(m) == IF m = FAST THEN 8 ELSE IF m = SMART THEN 6 ELSE 7

scale_down_threshold(m) == IF m = FAST THEN 2 ELSE 3

monitoring_interval_seconds(m) ==
    IF m = FAST THEN 15 ELSE IF m = SMART THEN 20 ELSE 30

enable_progressive_phases(m) == m = AUTO

\* ProgressiveScheduler._calculate_stable_workers
calculate_stable_workers ==
    optimal_workers + (recommended_max_workers - optimal_workers) \div 2

\* ProgressiveScheduler._initialize_phases, AUTO mode
phases ==
    << [phase_name |-> "exploration", min_duration_seconds |-> 180,
        max_duration_seconds |-> 360, target_workers |-> safe_start_workers],
       [phase_name |-> "optimization", min_duration_seconds |-> 300,
        max_duration_seconds |-> 600, target_workers |-> optimal_workers],
       [phase_name |-> "stabilization", min_duration_seconds |-> 0,
        max_duration_seconds |-> None,
        target_workers |-> calculate_stable_workers] >>

\* DynamicWorkerScaler._in_cooldown_period at time t
in_cooldown_period(t, last) ==
    IF last = None THEN FALSE ELSE t - last < scaling_cooldown

\* DynamicWorkerScaler._calculate_completion_rate: <<tasks, seconds>>
calculate_completion_rate(history, total_completed) ==
    IF Len(history) < 2 THEN <<0, 1>>
    ELSE LET time_diff == history[Len(history)] - history[Len(history) - 1]
         IN  IF time_diff = 0 THEN <<0, 1>>
             ELSE <<total_completed, Max(time_diff, 1)>>

\* DynamicWorkerScaler._calculate_queue_pressure as a fraction <<num, den>>;
\* n is len(worker_metrics)
calculate_queue_pressure(n, total_pending, total_completed, history) ==
    IF n = 0 THEN <<0, 1>>
    ELSE LET total_capacity == n * 100
             rate == calculate_completion_rate(history, total_completed)
         IN  IF rate[1] > 0
             THEN \* time_to_clear / 5 = total_pending / (rate * 300)
                  LET td == rate[1] * 300
                      tn == Min(total_pending * rate[2], td)
                  IN  <<total_pending * td + tn * total_capacity,
                        2 * total_capacity * td>>
             ELSE LET time_pressure == IF total_pending > 0 THEN 1 ELSE 0
                  IN  <<total_pending + time_pressure * total_capacity,
                        2 * total_capacity>>

AboveTenths(p, tenths) == p[1] * 10 > tenths * p[2]

BelowTenths(p, tenths) == p[1] * 10 < tenths * p[2]

\* DynamicWorkerScaler._check_resource_constraints(...)["at_limit"]
at_limit(cpu, mem) == cpu > cpu_threshold \/ mem < memory_threshold_mb

\* DynamicWorkerScaler._create_decision
create_decision(action, current_workers) ==
    [action |-> action, current_workers |-> current_workers,
     target_workers |-> current_workers, confidence |-> 95]

\* the DynamicWorkerScaler that _initialize_components builds from the
\* strategy of mode m (DynamicWorkerScaler.__init__)
ScalerOf(m) ==
    [min_workers |-> min_workers, max_workers |-> max_workers(m),
     scale_up_threshold |-> scale_up_threshold(m),
     scale_down_threshold |-> scale_down_threshold(m)]

\* _create_scale_up_decision adding 2 whatever room is left
create_scale_up_decision_uncapped(scaler, current_workers, queue_pressure) ==
    LET scale_amount == IF AboveTenths(queue_pressure, 9) THEN 2 ELSE 1
    IN  [action |-> SCALE_UP, current_workers |-> current_workers,
         target_workers |-> current_workers + scale_amount,
         confidence |-> 80]

\* DynamicWorkerScaler._create_scale_up_decision
create_scale_up_decision(scaler, current_workers, queue_pressure) ==
    LET scale_amount == IF AboveTenths(queue_pressure, 9)
                        THEN Min(2, scaler.max_workers - current_workers)
                        ELSE 1
    IN  [action |-> SCALE_UP, current_workers |-> current_workers,
         target_workers |-> current_workers + scale_amount,
         confidence |-> 80]

\* DynamicWorkerScaler._create_scale_down_decision
create_scale_down_decision(current_workers, queue_pressure) ==
    [action |-> SCALE_DOWN, current_workers |-> current_workers,
     target_workers |-> current_workers - 1,
     confidence |-> IF BelowTenths(queue_pressure, 1) THEN 90 ELSE 70]

\* DynamicWorkerScaler.evaluate_scaling_need at time t, with
\* active_worker_count workers whose is_running is true
evaluate_scaling_need(scaler, t, last, active_worker_count, queue_pressure, cpu, mem) ==
    IF in_cooldown_period(t, last)
    THEN create_decision(MAINTAIN, active_worker_count)
    ELSE IF AboveTenths(queue_pressure, scaler.scale_up_threshold)
            /\ ~at_limit(cpu, mem)
         THEN IF active_worker_count < scaler.max_workers
              THEN create_scale_up_decision(scaler, active_worker_count,
                                            queue_pressure)
              ELSE create_decision(MAINTAIN, active_worker_count)
         ELSE IF BelowTenths(queue_pressure, scaler.scale_down_threshold)
                 /\ active_worker_count > scaler.min_workers
              THEN create_scale_down_decision(active_worker_count,
                                              queue_pressure)
              ELSE create_decision(MAINTAIN, active_worker_count)

\* ProgressiveScheduler.get_scaling_recommendation
get_scaling_recommendation(idx, last_active) ==
    IF ~(0 <= idx /\ idx < Len(phases))
    THEN [action |-> MAINTAIN, current_workers |-> 0, target_workers |-> 0,
          confidence |-> 0]
    ELSE LET current_workers == IF last_active = None THEN 0 ELSE last_active
             target_workers == phases[idx + 1].target_workers
         IN  [action |-> IF current_workers < target_workers THEN SCALE_UP
                         ELSE IF current_workers > target_workers
                              THEN SCALE_DOWN
                              ELSE MAINTAIN,
              current_workers |-> current_workers,
              target_workers |-> target_workers,
              confidence |-> 85]

\* _fuse_decisions without the conflict rule of the AUTO mode
fuse_decisions_no_conflict(m, dynamic, progressive) ==
    IF m = AUTO THEN progressive
    ELSE IF m = SMART THEN dynamic
         ELSE IF progressive.confidence > dynamic.confidence
              THEN progressive
              ELSE dynamic

\* HybridIntelligentScheduler._fuse_decisions of the two decisions
fuse_decisions(m, dynamic, progressive) ==
    IF m = AUTO
    THEN IF dynamic.action = SCALE_DOWN /\ progressive.action = SCALE_UP
         THEN [action |-> MAINTAIN,
               current_workers |-> progressive.current_workers,
               target_workers |-> progressive.current_workers,
               confidence |-> 70]
         ELSE progressive
    ELSE IF m = SMART
         THEN dynamic
         ELSE IF progressive.confidence > dynamic.confidence
              THEN progressive
              ELSE dynamic

\* HybridIntelligentScheduler._make_scheduling_decision
make_scheduling_decision(m, dynamic, progressive) ==
    IF enable_progressive_phases(m)
    THEN fuse_decisions(m, dynamic, progressive)
    ELSE dynamic

\* ProgressiveScheduler._is_performance_stable over the recorded throughputs:
\* variance of the last 3 below (10% of their mean) squared
is_performance_stable(throughputs) ==
    IF Len(throughputs) < 3 THEN FALSE
    ELSE LET k == Len(throughputs)
             x1 == throughputs[k - 2]
             x2 == throughputs[k - 1]
             x3 == throughputs[k]
             total == x1 + x2 + x3
             dev(x) == (3 * x - total) * (3 * x - total)
         IN  100 * (dev(x1) + dev(x2) + dev(x3)) < 3 * total * total

\* ProgressiveScheduler.should_transition at time t; throughput_exit is the
\* outcome of the throughput-based exit conditions, which is False as long
\* as phase_start_time is None (every recorded throughput is then 0)
should_transition(idx, start, t, total_pending, throughput_exit) ==
    IF ~(0 <= idx /\ idx < Len(phases)) THEN FALSE
    ELSE LET phase == phases[idx + 1]
             elapsed == t - start
         IN  IF start # None /\ elapsed < phase.min_duration_seconds
             THEN FALSE
             ELSE IF start # None /\ phase.max_duration_seconds # None
                     /\ elapsed > phase.max_duration_seconds
                  THEN TRUE
                  ELSE IF idx = 0
                       THEN (start # None
                             /\ elapsed >= phase.min_duration_seconds)
                            \/ throughput_exit
                       ELSE IF idx = 1 THEN throughput_exit
                            ELSE total_pending = 0

\* transition_to_next_phase without its test of the last phase
CanTransitionAlways(idx) == TRUE

\* ProgressiveScheduler.transition_to_next_phase
CanTransition(idx) == idx < Len(phases) - 1

\* DynamicWorkerScaler._scale_up: the ids given to count new workers, one
\* after the other, each f"worker_{len(self.workers) + 1}"
RECURSIVE ScaleUpIds(_, _)
ScaleUpIds(ids, count) ==
    IF count <= 0 THEN ids
    ELSE ScaleUpIds(ids \cup {Cardinality(ids) + 1}, count - 1)

\* HybridIntelligentScheduler.__init__
HybridInit(m) ==
    /\ state = "none"
    /\ state' = "initializing"
    /\ execution_mode' = m
    /\ UNCHANGED <<system_metrics, is_running, analyzed>>
    /\ UNCHANGED <<scaler_workers, last_scaling_time, scaling_history,
                   resource_history, current_phase_index, phase_start_time,
                   perf_active, sclock, dynamic_decision, fused_decision, scheduling_decisions>>
    /\ UNCHANGED queueSide

\* HybridIntelligentScheduler.analyze_api
AnalyzeApi ==
    /\ state = "initializing"
    /\ state' = "analyzing"
    /\ analyzed' = TRUE
    /\ UNCHANGED <<system_metrics, is_running>>
    /\ UNCHANGED <<execution_mode, scaler_workers, last_scaling_time,
                   scaling_history, resource_history, current_phase_index,
                   phase_start_time, perf_active, sclock, dynamic_decision,
                   fused_decision, scheduling_decisions>>
    /\ UNCHANGED queueSide

\* HybridIntelligentScheduler.start with _create_initial_workers; created
\* are the ids for which worker_factory returned a worker
SchedulerStart(created) ==
    /\ state = "analyzing"
    /\ state' = "running"
    /\ is_running' = TRUE
    /\ scaler_workers' = created
    /\ UNCHANGED <<system_metrics, analyzed>>
    /\ UNCHANGED <<execution_mode, last_scaling_time, scaling_history,
                   resource_history, current_phase_index, phase_start_time,
                   perf_active, sclock, dynamic_decision, fused_decision, scheduling_decisions>>
    /\ UNCHANGED queueSide

\* DynamicWorkerScaler.execute_scaling of a SCALE_UP decision: made workers
\* are created before worker_factory returns None (made = count: success)
ExecuteScaleUp(decision, t, made) ==
    LET count == decision.target_workers - decision.current_workers
        success == made = Max(count, 0)
    IN  /\ scaler_workers' = ScaleUpIds(scaler_workers, made)
        /\ last_scaling_time' = IF success THEN t ELSE last_scaling_time
        /\ scaling_history' = IF success THEN Min(scaling_history + 1, 50)
                              ELSE scaling_history

\* DynamicWorkerScaler.execute_scaling of a SCALE_DOWN decision: stopped are
\* the workers _select_workers_to_stop picked (the least loaded ones);
\* outcome tells what their stop() does
ExecuteScaleDown(decision, t, stopped, outcome) ==
    LET success == outcome # "raises"
    IN  /\ scaler_workers' = IF outcome = "stopped"
                             THEN scaler_workers \ stopped
                             ELSE scaler_workers
        /\ last_scaling_time' = IF success THEN t ELSE last_scaling_time
        /\ scaling_history' = IF success THEN Min(scaling_history + 1, 50)
                              ELSE scaling_history

\* one iteration of HybridIntelligentScheduler._scheduling_loop: collect the
\* workers' metrics, decide, execute the decision, check the phase, sleep
SchedulingLoopTick ==
    /\ is_running
    /\ sclock + CpuSampleSeconds <= MaxSchedClock
    /\ \E active \in 0..Cardinality(scaler_workers),
          total_pending \in PendingTotals,
          total_completed \in CompletedTotals,
          cpu \in CpuSamples, mem \in MemorySamples,
          throughput_exit \in (IF phase_start_time = None THEN {FALSE}
                               ELSE BOOLEAN) :
        LET m == execution_mode
            n == Cardinality(scaler_workers)
            t == sclock + CpuSampleSeconds
            history == IF Len(resource_history) < 20
                       THEN Append(resource_history, t)
                       ELSE Append(Tail(resource_history), t)
            last_active == IF enable_progressive_phases(m) /\ n > 0
                           THEN active ELSE perf_active
            queue_pressure == calculate_queue_pressure(n, total_pending,
                                                       total_completed, history)
            dynamic == evaluate_scaling_need(ScalerOf(m), t, last_scaling_time,
                                             active, queue_pressure, cpu, mem)
            progressive == get_scaling_recommendation(current_phase_index,
                                                      last_active)
            decision == make_scheduling_decision(m, dynamic, progressive)
            count == decision.target_workers - decision.current_workers
            moves == enable_progressive_phases(m)
                     /\ should_transition(current_phase_index,
                                          phase_start_time, t, total_pending,
                                          throughput_exit)
                     /\ CanTransition(current_phase_index)
        IN  /\ perf_active' = last_active
            /\ resource_history' = history
            /\ dynamic_decision' = dynamic
            /\ fused_decision' = decision
            /\ scheduling_decisions' = scheduling_decisions + 1
            /\ system_metrics' = [cpu |-> cpu, mem |-> mem,
                                  active_worker_count |-> active]
            /\ \/ /\ decision.action = MAINTAIN
                  /\ UNCHANGED <<scaler_workers, last_scaling_time,
                                 scaling_history>>
               \/ /\ decision.action = SCALE_UP
                  /\ \E made \in 0..Max(count, 0) :
                        /\ Cardinality(ScaleUpIds(scaler_workers, made))
                             <= MaxScalerWorkers
                        /\ ExecuteScaleUp(decision, t, made)
               \/ /\ decision.action = SCALE_DOWN
                  /\ \E stopped \in SUBSET scaler_workers,
                        outcome \in {"stopped", "raises", "no_stop"} :
                        /\ Cardinality(stopped) = Min(Max(0 - count, 0), n)
                        /\ ExecuteScaleDown(decision, t, stopped, outcome)
            /\ current_phase_index' = IF moves THEN current_phase_index + 1
                                      ELSE current_phase_index
            /\ phase_start_time' = IF moves THEN t ELSE phase_start_time
            /\ sclock' = t + monitoring_interval_seconds(m)
    /\ UNCHANGED <<state, execution_mode, is_running, analyzed>>
    /\ UNCHANGED queueSide

\* an exception leaves an iteration of _scheduling_loop (psutil in
\* get_system_metrics, update_performance_metrics, worker_callback): the
\* except clause around the while loop sets STOPPED, the finally clause
\* clears is_running
SchedulingLoopError ==
    /\ is_running
    /\ state' = "stopped"
    /\ is_running' = FALSE
    /\ UNCHANGED <<execution_mode, scaler_workers, last_scaling_time,
                   scaling_history, resource_history, current_phase_index,
                   phase_start_time, perf_active, sclock, dynamic_decision,
                   fused_decision, scheduling_decisions, system_metrics, analyzed>>
    /\ UNCHANGED queueSide

NextSched ==
    \/ \E m \in ExecutionModes : HybridInit(m)
    \/ AnalyzeApi
    \/ \E created \in SUBSET (1..initial_workers(execution_mode)) :
          SchedulerStart(created)
    \/ SchedulingLoopTick
    \/ SchedulingLoopError

SpecSched == Init /\ [][NextSched]_vars

\* progressive_scheduler.transition_to_next_phase() called on its own
TransitionToNextPhase ==
    /\ analyzed
    /\ enable_progressive_phases(execution_mode)
    /\ current_phase_index' = IF CanTransition(current_phase_index)
                              THEN current_phase_index + 1
                              ELSE current_phase_index
    /\ phase_start_time' = IF CanTransition(current_phase_index)
                           THEN sclock
                           ELSE phase_start_time
    /\ UNCHANGED <<state, execution_mode, scaler_workers, last_scaling_time,
                   scaling_history, resource_history, perf_active, sclock,
                   dynamic_decision, fused_decision, scheduling_decisions, system_metrics,
                   is_running, analyzed>>
    /\ UNCHANGED queueSide

\* the clock of the phase checks stops here
MaxPhaseClock == 700

\* HybridIntelligentScheduler._check_phase_transition with the metrics of a
\* tick: should_transition, then transition_to_next_phase
CheckPhaseTransition(total_pending, throughput_exit) ==
    LET moves == /\ should_transition(current_phase_index, phase_start_time,
                                      sclock, total_pending, throughput_exit)
                 /\ CanTransition(current_phase_index)
    IN  /\ analyzed
        /\ enable_progressive_phases(execution_mode)
        /\ current_phase_index' = IF moves THEN current_phase_index + 1
                                  ELSE current_phase_index
        /\ phase_start_time' = IF moves THEN sclock ELSE phase_start_time
        /\ UNCHANGED <<state, execution_mode, scaler_workers,
                       last_scaling_time, scaling_history, resource_history,
                       perf_active, sclock, dynamic_decision, fused_decision, scheduling_decisions,
                       system_metrics, is_running, analyzed>>
        /\ UNCHANGED queueSide

\* asyncio.sleep(monitoring_interval_seconds) between two checks
PhaseSleep ==
    /\ analyzed
    /\ sclock + monitoring_interval_seconds(execution_mode) <= MaxPhaseClock
    /\ sclock' = sclock + monitoring_interval_seconds(execution_mode)
    /\ UNCHANGED <<state, execution_mode, scaler_workers, last_scaling_time,
                   scaling_history, resource_history, current_phase_index,
                   phase_start_time, perf_active, dynamic_decision,
                   fused_decision, scheduling_decisions, system_metrics, is_running, analyzed>>
    /\ UNCHANGED queueSide

NextProgressive ==
    \/ \E m \in ExecutionModes : HybridInit(m)
    \/ AnalyzeApi
    \/ \E total_pending \in PendingTotals,
          throughput_exit \in (IF phase_start_time = None THEN {FALSE}
                               ELSE BOOLEAN) :
          CheckPhaseTransition(total_pending, throughput_exit)
    \/ PhaseSleep
    \/ TransitionToNextPhase

SpecProgressive == Init /\ [][NextProgressive]_vars

\* the values of SchedulerState the scheduler assigns (PAUSED never is)
SchedulerStates ==
    {"initializing", "analyzing", "running", "stopping", "stopped"}

\* stop() is between its first assignment and the end of cleanup()
StopInProgress == state = "stopping" /\ analyzed

\* analyze_api called in any state of the scheduler: _initialize_components
\* makes a new DynamicWorkerScaler and, with phases enabled, a new
\* ProgressiveScheduler
AnalyzeApiCall ==
    /\ state \in SchedulerStates
    /\ ~StopInProgress
    /\ state' = "analyzing"
    /\ analyzed' = TRUE
    /\ scaler_workers' = {}
    /\ last_scaling_time' = None
    /\ scaling_history' = 0
    /\ resource_history' = <<>>
    /\ current_phase_index' = IF enable_progressive_phases(execution_mode)
                              THEN 0 ELSE current_phase_index
    /\ phase_start_time' = IF enable_progressive_phases(execution_mode)
                           THEN None ELSE phase_start_time
    /\ perf_active' = IF enable_progressive_phases(execution_mode)
                      THEN None ELSE perf_active
    /\ UNCHANGED <<execution_mode, sclock, dynamic_decision, fused_decision, scheduling_decisions,
                   system_metrics, is_running>>
    /\ UNCHANGED queueSide

\* start called in any state of the scheduler: it returns when is_running
\* and raises ValueError without an api_pattern
StartCall(created) ==
    /\ state \in SchedulerStates
    /\ ~StopInProgress
    /\ ~is_running
    /\ analyzed
    /\ state' = "running"
    /\ is_running' = TRUE
    /\ scaler_workers' = scaler_workers \cup created
    /\ UNCHANGED <<system_metrics, analyzed>>
    /\ UNCHANGED <<execution_mode, last_scaling_time, scaling_history,
                   resource_history, current_phase_index, phase_start_time,
                   perf_active, sclock, dynamic_decision, fused_decision, scheduling_decisions>>
    /\ UNCHANGED queueSide

\* stop called in any state of the scheduler, up to the cancellation of the
\* scheduling task; without a dynamic_scaler (no analyze_api before)
\* self.dynamic_scaler.cleanup() raises AttributeError and stop ends here
StopBegin ==
    /\ state \in SchedulerStates
    /\ ~StopInProgress
    /\ state' = "stopping"
    /\ is_running' = FALSE
    /\ UNCHANGED <<execution_mode, scaler_workers, last_scaling_time,
                   scaling_history, resource_history, current_phase_index,
                   phase_start_time, perf_active, sclock, dynamic_decision,
                   fused_decision, scheduling_decisions, system_metrics, analyzed>>
    /\ UNCHANGED queueSide

\* the rest of stop: DynamicWorkerScaler.cleanup, then STOPPED; kept are the
\* workers whose stop() raised
StopFinish(kept) ==
    /\ StopInProgress
    /\ state' = "stopped"
    /\ scaler_workers' = kept
    /\ UNCHANGED <<execution_mode, last_scaling_time, scaling_history,
                   resource_history, current_phase_index, phase_start_time,
                   perf_active, sclock, dynamic_decision, fused_decision, scheduling_decisions,
                   system_metrics, is_running, analyzed>>
    /\ UNCHANGED queueSide

NextLifecycle ==
    \/ \E m \in ExecutionModes : HybridInit(m)
    \/ AnalyzeApiCall
    \/ \E created \in SUBSET (1..initial_workers(execution_mode)) :
          StartCall(created)
    \/ StopBegin
    \/ \E kept \in SUBSET scaler_workers : StopFinish(kept)
    \/ PhaseSleep
    \/ SchedulingLoopError

SpecLifecycle == Init /\ [][NextLifecycle]_vars

----------------------------------------------------------------------------
(* The scheduling functions on their own: the arguments are drawn in the    *)
(* initial state, one step applies the function to them.                    *)

\* the time of the call, seconds
FnNow == 100

\* len(worker_metrics) of the scaler under check
FnWorkerCounts == {0, 1, 3, 6}

\* WorkerMetrics.pending_tasks of each worker
FnPendingPerWorker == {0, 50, 90, 100, 300}

\* resource_history timestamps after the append of evaluate_scaling_need
FnHistories == {<<FnNow>>, <<FnNow - 31, FnNow>>}

\* last_scaling_time: never, 30 s ago, 60 s ago
FnLastScalings == {None, FnNow - 30, FnNow - 60}

\* DynamicWorkerScaler(min_workers, max_workers, thresholds)
ScalerConfigs ==
    {[ScalerOf(m) EXCEPT !.max_workers = k] :
        m \in ExecutionModes, k \in {1, 4, 5}}

EvaluateArgs ==
    {a \in [fn : {"evaluate_scaling_need"}, scaler : ScalerConfigs,
            n : FnWorkerCounts, active : 0..6,
            pending_per_worker : FnPendingPerWorker,
            total_completed : CompletedTotals, history : FnHistories,
            last : FnLastScalings, cpu : CpuSamples, mem : MemorySamples] :
        a.active <= a.n}

PressureArgs ==
    [fn : {"calculate_queue_pressure"}, n : FnWorkerCounts,
     pending_per_worker : FnPendingPerWorker,
     total_completed : CompletedTotals, history : FnHistories]

\* seconds since the phase under check became the active one
FnElapsed == {30, 180, 200, 361, 700}

\* throughputs recorded in performance_history (tasks per minute)
FnThroughputs == {<<>>, <<0, 0, 0>>, <<10, 10, 10>>, <<10, 20, 30>>}

\* a ProgressiveScheduler in phase idx: phase_start_time is None in the first
\* phase (only transition_to_next_phase sets it) and every throughput
\* recorded with phase_start_time None is 0; in_progress is the number of
\* tasks being processed
ShouldTransitionArgs ==
    {a \in [fn : {"should_transition"}, idx : 0..2, elapsed : FnElapsed,
            throughputs : FnThroughputs, throughput_exit : BOOLEAN,
            total_pending : PendingTotals, in_progress : {0, 1}] :
        /\ a.idx = 0 => a.throughputs \in {<<>>, <<0, 0, 0>>}
        /\ a.idx # 1 => ~a.throughput_exit}

\* decisions evaluate_scaling_need returns
DynamicDecisions ==
    {create_decision(MAINTAIN, c) : c \in 0..4}
    \cup {create_scale_up_decision(ScalerOf(AUTO), c, p) :
             c \in 0..3, p \in {<<3, 4>>, <<1, 1>>}}
    \cup {create_scale_down_decision(c, p) :
             c \in 2..4, p \in {<<0, 1>>, <<1, 5>>}}

\* decisions get_scaling_recommendation returns
ProgressiveDecisions ==
    {get_scaling_recommendation(idx, a) :
        idx \in 0..Len(phases), a \in {None} \cup 0..4}

FuseArgs ==
    [fn : {"fuse_decisions"}, mode : ExecutionModes,
     dynamic : DynamicDecisions, progressive : ProgressiveDecisions]

\* thresholds of a configuration, in tenths
ThresholdTenths == {2, 3, 7, 8}

\* Settings: worker_scale_up_threshold has ge=0.1, le=1.0,
\* worker_scale_down_threshold has ge=0.0, le=0.9, and validate_thresholds
\* raises ValueError when the scale down threshold is not below the other
SettingsRejects(up, down) ==
    \/ up < 1 \/ up > 10
    \/ down < 0 \/ down > 9
    \/ down >= up

\* ExecutionStrategy (a dataclass) and DynamicWorkerScaler.__init__ store
\* the thresholds they are given
ConstructorRejects(up, down) == FALSE

ConfigurationArgs ==
    [fn : {"Settings", "ExecutionStrategy", "DynamicWorkerScaler"},
     scale_up_threshold : ThresholdTenths,
     scale_down_threshold : ThresholdTenths]

\* APIComplexityLevel
SIMPLE == "simple"
MEDIUM == "medium"
COMPLEX == "complex"
VERY_COMPLEX == "very_complex"
ComplexityLevels == {SIMPLE, MEDIUM, COMPLEX, VERY_COMPLEX}

\* the pattern names of APIPatternMatcher
PatternNames ==
    {"RESTful CRUD", "GraphQL", "RPC-style", "REST-like", "Microservice",
     "Generic API"}

\* _calculate_recommendations: base_recommendations of a pattern
base_recommendations(pattern_name) ==
    IF pattern_name = "GraphQL"
    THEN [safe |-> 2, optimal |-> 3, max |-> 4]
    ELSE IF pattern_name = "Microservice"
         THEN [safe |-> 2, optimal |-> 4, max |-> 6]
         ELSE [safe |-> 2, optimal |-> 3, max |-> 5]

\* _calculate_recommendations: the adjustment of a complexity level
complexity_adjustment(level) ==
    IF level = SIMPLE THEN 0
    ELSE IF level = MEDIUM THEN 1
         ELSE IF level = COMPLEX THEN 2 ELSE 3

\* _calculate_recommendations: the adjustment of the endpoint count
endpoint_adjustment(endpoint_count) ==
    IF endpoint_count > 100 THEN 2
    ELSE IF endpoint_count > 50 THEN 1 ELSE 0

\* APIPatternMatcher._calculate_recommendations
calculate_recommendations(pattern_name, level, endpoint_count) ==
    LET base == base_recommendations(pattern_name)
        adjustment == complexity_adjustment(level)
                      + endpoint_adjustment(endpoint_count)
    IN  [safe_start_workers |-> base.safe,
         optimal_workers |-> Min(base.optimal + adjustment, base.max),
         recommended_max_workers |-> Min(base.max + adjustment, 10)]

EndpointCounts == {10, 49, 50, 51, 99, 100, 101}

RecommendationArgs ==
    [fn : {"calculate_recommendations"}, pattern_name : PatternNames,
     level : ComplexityLevels, endpoint_count : EndpointCounts]

FnArgs ==
    EvaluateArgs \cup PressureArgs \cup ShouldTransitionArgs \cup FuseArgs
    \cup ConfigurationArgs
    \cup RecommendationArgs

\* the queue pressure the scaler computes from the metrics in a
PressureOf(a) ==
    calculate_queue_pressure(a.n, a.pending_per_worker * a.n,
                             a.total_completed, a.history)

\* await scaler.evaluate_scaling_need()
ApplyEvaluate ==
    /\ fn_args.fn = "evaluate_scaling_need"
    /\ fn_result = NoResult
    /\ fn_result' =
         [fn |-> "evaluate_scaling_need", pressure |-> PressureOf(fn_args),
          decision |-> evaluate_scaling_need(fn_args.scaler, FnNow,
                           fn_args.last, fn_args.active, PressureOf(fn_args),
                           fn_args.cpu, fn_args.mem)]
    /\ UNCHANGED <<fn_args, schedVars, tasks, queue, progress, session,
                   clockVars, lock, workerVars, producerVars, cancelVars,
                   faultVars, histVars, restartVars, waitVars, ndup, taskq,
                   shutdownVars>>

\* scaler._calculate_queue_pressure()
ApplyPressure ==
    /\ fn_args.fn = "calculate_queue_pressure"
    /\ fn_result = NoResult
    /\ fn_result' = [fn |-> "calculate_queue_pressure",
                     pressure |-> PressureOf(fn_args)]
    /\ UNCHANGED <<fn_args, schedVars, tasks, queue, progress, session,
                   clockVars, lock, workerVars, producerVars, cancelVars,
                   faultVars, histVars, restartVars, waitVars, ndup, taskq,
                   shutdownVars>>

\* progressive_scheduler.should_transition(metrics)
ApplyShouldTransition ==
    /\ fn_args.fn = "should_transition"
    /\ fn_result = NoResult
    /\ LET start == IF fn_args.idx = 0 THEN None
                    ELSE FnNow - fn_args.elapsed
           exit == IF fn_args.idx = 0
                   THEN is_performance_stable(fn_args.throughputs)
                   ELSE fn_args.throughput_exit
       IN  fn_result' =
             [fn |-> "should_transition",
              value |-> should_transition(fn_args.idx, start, FnNow,
                                          fn_args.total_pending, exit)]
    /\ UNCHANGED <<fn_args, schedVars, tasks, queue, progress, session,
                   clockVars, lock, workerVars, producerVars, cancelVars,
                   faultVars, histVars, restartVars, waitVars, ndup, taskq,
                   shutdownVars>>

\* self._fuse_decisions([("dynamic", d), ("progressive", p)], metrics)
ApplyFuse ==
    /\ fn_args.fn = "fuse_decisions"
    /\ fn_result = NoResult
    /\ fn_result' = [fn |-> "fuse_decisions",
                     value |-> fuse_decisions(fn_args.mode, fn_args.dynamic,
                                              fn_args.progressive)]
    /\ UNCHANGED <<fn_args, schedVars, tasks, queue, progress, session,
                   clockVars, lock, workerVars, producerVars, cancelVars,
                   faultVars, histVars, restartVars, waitVars, ndup, taskq,
                   shutdownVars>>

\* the frame of the steps that apply a function
fnFrame ==
    <<fn_args, schedVars, tasks, queue, progress, session, clockVars, lock,
      workerVars, producerVars, cancelVars, faultVars, histVars, restartVars,
      waitVars, ndup, taskq, shutdownVars>>

\* Settings(...), ExecutionStrategy(...) or DynamicWorkerScaler(...) with
\* the thresholds drawn
ApplyConfiguration ==
    /\ fn_args.fn \in {"Settings", "ExecutionStrategy", "DynamicWorkerScaler"}
    /\ fn_result = NoResult
    /\ LET up == fn_args.scale_up_threshold
           down == fn_args.scale_down_threshold
       IN  fn_result' =
             [fn |-> fn_args.fn,
              rejected |-> IF fn_args.fn = "Settings"
                           THEN SettingsRejects(up, down)
                           ELSE ConstructorRejects(up, down)]
    /\ UNCHANGED fnFrame

\* self._calculate_recommendations(pattern_name, complexity)
ApplyRecommendations ==
    /\ fn_args.fn = "calculate_recommendations"
    /\ fn_result = NoResult
    /\ fn_result' =
         [fn |-> "calculate_recommendations",
          value |-> calculate_recommendations(fn_args.pattern_name,
                                              fn_args.level,
                                              fn_args.endpoint_count)]
    /\ UNCHANGED fnFrame

InitFn ==
    /\ InitCore
    /\ fn_args \in FnArgs
    /\ fn_result = NoResult

NextFn ==
    \/ ApplyEvaluate
    \/ ApplyPressure
    \/ ApplyShouldTransition
    \/ ApplyFuse
    \/ ApplyConfiguration
    \/ ApplyRecommendations

SpecFn == InitFn /\ [][NextFn]_vars

\* maxlen of DynamicWorkerScaler.scaling_history
scaling_history_maxlen == 50

\* the iterations of the loop counted in a long run
MaxDecisions == 60

\* an iteration of _scheduling_loop with an idle queue whose decision is
\* MAINTAIN: nothing is executed, the decision is appended, the loop sleeps
IdleLoopTick ==
    /\ is_running
    /\ scheduling_decisions < MaxDecisions
    /\ \E cpu \in CpuSamples, mem \in MemorySamples :
        LET m == execution_mode
            n == Cardinality(scaler_workers)
            t == sclock + CpuSampleSeconds
            history == IF Len(resource_history) < 20
                       THEN Append(resource_history, t)
                       ELSE Append(Tail(resource_history), t)
            last_active == IF enable_progressive_phases(m) /\ n > 0
                           THEN 0 ELSE perf_active
            queue_pressure == calculate_queue_pressure(n, 0, 0, history)
            dynamic == evaluate_scaling_need(ScalerOf(m), t, last_scaling_time,
                                             0, queue_pressure, cpu, mem)
            progressive == get_scaling_recommendation(current_phase_index,
                                                      last_active)
            decision == make_scheduling_decision(m, dynamic, progressive)
        IN  /\ decision.action = MAINTAIN
            /\ ~(enable_progressive_phases(m)
                 /\ should_transition(current_phase_index, phase_start_time,
                                      t, 0, FALSE))
            /\ perf_active' = last_active
            /\ resource_history' = history
            /\ dynamic_decision' = dynamic
            /\ fused_decision' = decision
            /\ scheduling_decisions' = scheduling_decisions + 1
            /\ system_metrics' = [cpu |-> cpu, mem |-> mem,
                                  active_worker_count |-> 0]
            /\ sclock' = t + monitoring_interval_seconds(m)
    /\ UNCHANGED <<state, execution_mode, is_running, analyzed, scaler_workers,
                   last_scaling_time, scaling_history, current_phase_index,
                   phase_start_time>>
    /\ UNCHANGED queueSide

NextHistory ==
    \/ \E m \in ExecutionModes : HybridInit(m)
    \/ AnalyzeApi
    \/ \E created \in SUBSET (1..initial_workers(execution_mode)) :
          SchedulerStart(created)
    \/ IdleLoopTick

SpecHistory == Init /\ [][NextHistory]_vars

----------------------------------------------------------------------------
(* The in-memory TaskQueue: steps of the event loop *)

taskqFrame == <<tasks, queue, progress, session, clockVars, lock, workerVars, producerVars, cancelVars, faultVars, histVars, restartVars, waitVars, ndup, shutdownVars, schedVars, fnVars>>

\* the event loop runs a ready caller: the producer (put after put), or a
\* worker in get or task_done
QueueRun(c) ==
    /\ c \in taskq.ready
    /\ taskq' = RunToSuspension(
                  Resume([taskq EXCEPT !.ready = @ \ {c}], c), c)
    /\ UNCHANGED taskqFrame

\* Worker._process_task: the generator returns or raises, the task is
\* marked, and the finally clause calls queue.task_done(task); the worker
\* then goes round its loop to the next get
QueueProcess(c, outcome) ==
    /\ taskq.pc[c] = "process"
    /\ outcome # "ok" => taskq.nfail < MaxQueueFailures
    /\ LET t == taskq.cur[c].task
           started == mark_in_progress(taskq.task[t])
           task == CASE outcome = "ok" -> mark_completed(started)
                     [] outcome = "recoverable" -> mark_failed(started, TRUE)
                     [] outcome = "fatal" -> mark_failed(started, FALSE)
       IN  taskq' = RunToSuspension(
                      [taskq EXCEPT !.task[t] = task,
                                    !.nfail = IF outcome = "ok" THEN @
                                              ELSE @ + 1,
                                    !.pc[c] = "task_done"], c)
    /\ UNCHANGED taskqFrame

\* get(timeout=1.0): the timeout of wait_for expires; the task running
\* wait() is cancelled, leaves the condition's waiters and reacquires the
\* condition's lock before get returns None
QueueTimeout(c) ==
    /\ taskq.pc[c] = "waiting"
    /\ taskq' = RunToSuspension(
                  [taskq EXCEPT !.waiters = WithoutCaller(@, c),
                                !.pc[c] = "timed_out_reacquire"], c)
    /\ UNCHANGED taskqFrame

\* time.time() advances
QueueTick ==
    /\ taskq.now < MaxQueueTime
    /\ \E e \in taskq.queue : e.at > taskq.now
    /\ taskq' = [taskq EXCEPT !.now = @ + 1]
    /\ UNCHANGED taskqFrame

NextTaskQueue ==
    \/ \E c \in QueueCallers : QueueRun(c)
    \/ \E c \in QueueWorkers, outcome \in {"ok", "recoverable", "fatal"} :
          QueueProcess(c, outcome)
    \/ \E c \in QueueWorkers : QueueTimeout(c)
    \/ QueueTick

SpecTaskQueue == Init /\ [][NextTaskQueue]_vars

----------------------------------------------------------------------------
(* Properties *)

HasQueueRow(t) == \E q \in queue : q.task = t

Holding(w) == pc[w] \in {"process", "td_update", "td_session", "rq_update",
                         "rq_insert"}

\* the row a worker has just selected in GetSelect
SelectedRow(w) == CHOOSE q \in queue : q.sub = cur'[w].queue_id

Selects(w) == pc[w] = "idle" /\ pc'[w] = "dq_write"

AvailableRows ==
    {q \in queue : tasks[q.task].status \in {PENDING, RETRYING} /\ q.at <= now}

AllowedTransitions ==
    {<<PENDING, IN_PROGRESS>>, <<RETRYING, IN_PROGRESS>>,
     <<IN_PROGRESS, COMPLETED>>, <<IN_PROGRESS, RETRYING>>,
     <<IN_PROGRESS, FAILED>>, <<PENDING, CANCELLED>>, <<RETRYING, CANCELLED>>}

\* C1: every change of a task's stored status is one of the seven allowed
\* transitions; in particular a Completed, Failed or Cancelled task never
\* changes status again.
C1_StatusTransitions ==
    [][\A t \in Tasks :
         (tasks[t].status # Absent /\ tasks'[t].status # tasks[t].status)
            => <<tasks[t].status, tasks'[t].status>> \in AllowedTransitions]_vars

\* C2: a task is returned by get at most once per time it was put on the
\* queue (once by put, once more per requeue), and no two workers hold the
\* same task at the same time.
C2_DequeueAtMostOnce ==
    /\ \A t \in Tasks : hist[t].deq <= 1 + hist[t].req
    /\ \A w1, w2 \in Workers :
         (w1 # w2 /\ Holding(w1) /\ Holding(w2)) => cur[w1].id # cur[w2].id

\* C2 witness: both workers were in get while one task was available, one of
\* them got it; and a requeued task has been returned a second time.
C2_Witness ==
    \E t \in Tasks, w \in Workers :
        /\ hist[t].deq = 2 /\ hist[t].req = 1
        /\ pc[w] = "process" /\ cur[w].id = t
        /\ \E v \in Workers : v # w /\ pc[v] = "idle"

\* C3: when a store operation (enqueue, dequeue, requeue) raises, the tasks
\* table, the queue index and the counters are as they were when it began.
C3_FailedOperationRolledBack ==
    raised \in {"enqueue", "dequeue", "requeue"} => store = snap

NoOperationInProgress ==
    /\ ppc = "idle"
    /\ cpc = "idle"
    /\ \A w \in Workers : pc[w] \in {"idle", "process", "stopped", "crashed"}

CountOf(statuses) == Cardinality({t \in Tasks : tasks[t].status \in statuses})

\* C4: after every store operation the progress counters equal the task set.
C4_CountersMatchTasks ==
    NoOperationInProgress =>
        /\ progress.pending = CountOf({PENDING, RETRYING})
        /\ progress.processing = CountOf({IN_PROGRESS})
        /\ progress.completed = CountOf({COMPLETED})
        /\ progress.failed = CountOf({FAILED})

\* get has returned the task to a worker since it was last put on the queue
ReturnedByGet(t) == hist[t].deq > hist[t].req

\* C5: once scale_workers has returned (the removed worker's coroutine is
\* over), no task that get had returned to the removed worker is left
\* InProgress.
C5_NoTaskAbandonedInProgress ==
    \A w \in Workers :
        (pc[w] = "stopped" /\ cur[w].id # 0 /\ ReturnedByGet(cur[w].id))
            => tasks[cur[w].id].status # IN_PROGRESS

\* nothing is left for the running workers to do, now or at any later time
Quiescent ==
    /\ ppc = "idle"
    /\ LiveWorkers # {}
    /\ \A w \in LiveWorkers : pc[w] = "idle" /\ running[w]
    /\ \A q \in queue : tasks[q.task].status \notin {PENDING, RETRYING}

\* C6: every task put on the queue reaches a terminal status: when the
\* running workers have nothing left to do, no task is short of one.
C6_AllTasksEndTerminal ==
    Quiescent => \A t \in Tasks :
                    tasks[t].status # Absent => tasks[t].status \in Terminal

C8_NotBeforeScheduledAt ==
    [][/\ \A w \in Workers : Selects(w) => SelectedRow(w).at <= now
       /\ \A w \in Workers :
            pc[w] = "rq_insert" =>
                \A q \in queue' \ queue : q.task = cur[w].id /\ q.at > now]_vars

\* C8 witness: a requeued task is returned by get again, at or after the
\* time its entry was scheduled for, which other states precede.
C8_Witness ==
    \E w \in Workers :
        /\ pc[w] = "process"
        /\ hist[cur[w].id].req = 2
        /\ hist[cur[w].id].deq = 3
        /\ now >= 3

\* C9: the entry get selects has the lowest priority value among the
\* available entries and, among those, the earliest scheduled_at; tasks of
\* one priority that were never requeued leave in the order they were put.
C9_PriorityThenFifo ==
    [][\A w \in Workers : Selects(w) =>
         LET r == SelectedRow(w)
         IN  /\ r \in AvailableRows
             /\ \A o \in AvailableRows \ {r} :
                  /\ r.priority <= o.priority
                  /\ r.priority = o.priority =>
                        (r.at < o.at \/ (r.at = o.at /\ r.sub < o.sub))
                  /\ (r.priority = o.priority /\ hist[r.task].req = 0
                      /\ hist[o.task].req = 0) => r.task < o.task]_vars

\* C9 witness: a Critical task is selected while a Normal task that was put
\* before it is still waiting.
C9_Witness ==
    \E w \in Workers :
        /\ pc[w] = "dq_write"
        /\ cur[w].priority = CRITICAL
        /\ \E q \in AvailableRows :
              q.task < cur[w].id /\ q.priority = NORMAL /\ q.at <= now

\* C10: a task whose task_done raised is left retriable: not InProgress,
\* and with a queue entry if it is Pending or Retrying.
C10_ReportFailureLeavesTaskRetriable ==
    \A t \in doneRaised :
        /\ tasks[t].status # IN_PROGRESS
        /\ tasks[t].status \in {PENDING, RETRYING} => HasQueueRow(t)

\* C11: a task that was InProgress when the process died is recovered after
\* the session is resumed: when the new workers have nothing left to do, it
\* has reached a terminal status.
C11_InProgressRecoveredAfterRestart ==
    (ncrash > 0 /\ Quiescent) =>
        \A t \in orphaned : tasks[t].status \in Terminal

\* C12: wait_empty returns True only when every task of the session has a
\* terminal status.
C12_WaitEmptyOnlyWhenAllTerminal ==
    [][(wpc # "returned_true" /\ wpc' = "returned_true") =>
          \A t \in Tasks : tasks[t].status \in Terminal]_vars

\* C13: a cancel_task call that reports failure changes nothing in the
\* store; a task is set to Cancelled, and its queue entry removed by
\* cancel_task, only while its stored status is Pending or Retrying.
C13_CancelOnlyPendingOrRetrying ==
    [][/\ (ncancel' # ncancel /\ cret' = "false") => store' = store
       /\ \A t \in Tasks :
            (tasks[t].status # CANCELLED /\ tasks'[t].status = CANCELLED)
                => tasks[t].status \in {PENDING, RETRYING}
       /\ (cpc = "c_remove" /\ queue' # queue)
                => tasks[ctask.id].status \in {PENDING, RETRYING}]_vars

\* C14: put of a task whose id is already in the store fails and leaves the
\* tasks table, the queue index and the counters as they were.
C14_DuplicatePutChangesNothing ==
    [][ndup' # ndup =>
          /\ store' = store
          /\ raised' = "duplicate"
          /\ ppc' = "idle"]_vars

\* C14 witness: a put of an id that is already stored has failed while a
\* task was in progress and another was waiting in the queue.
C14_Witness ==
    /\ ndup > 0
    /\ raised = "duplicate"
    /\ snap = store
    /\ \E t \in Tasks : tasks[t].status = IN_PROGRESS
    /\ queue # {}
    /\ progress.pending > 0

\* C15: an attempt that fails with a non-recoverable error leaves the task
\* Failed in the worker's hands, task_done stores it as Failed, and the task
\* is never requeued, dequeued or attempted again.
C15_PermanentErrorFailsAtOnce ==
    [][\A t \in Tasks : hist'[t].permanent =>
         /\ \A w \in Workers :
              (Holding(w)' /\ cur'[w].id = t) => cur'[w].status = FAILED
         /\ \A w \in Workers :
              (pc[w] = "td_update" /\ cur[w].id = t /\ pc'[w] # "td_update")
                  => tasks'[t].status = FAILED /\ pc'[w] = "td_session"
         /\ hist[t].permanent =>
              /\ hist'[t].req = hist[t].req
              /\ hist'[t].deq = hist[t].deq
              /\ hist'[t].att = hist[t].att
              /\ ~HasQueueRow(t)']_vars

\* C15 witness: a task that had been retried twice is stored Failed after a
\* non-recoverable error on its third attempt.
C15_Witness ==
    \E t \in Tasks :
        /\ hist[t].permanent
        /\ hist[t].att = 3
        /\ tasks[t].retry_count = 2
        /\ tasks[t].status = FAILED

\* C16: the k-th recoverable failure of a task is followed by a requeue
\* delay of retry_delay_seconds * 2^(k-1), and the successive delays of one
\* task never decrease.
C16_RetryDelayDoubles ==
    [][\A w \in Workers :
         (pc[w] = "rq_insert" /\ pc'[w] # "rq_insert") =>
            LET t == cur[w].id
            IN  \A q \in queue' \ queue :
                  /\ q.task = t
                  /\ q.at - now = BaseDelay * Pow2(hist[t].att - 1)
                  /\ q.at - now = BaseDelay * Pow2(cur[w].retry_count - 1)
                  /\ q.at - now >= hist[t].delay
                  /\ hist'[t].delay = q.at - now]_vars

\* C16 witness: a task has been requeued after its third failure with a
\* delay of four times the base delay.
C16_Witness ==
    \E t \in Tasks :
        /\ hist[t].att = 3
        /\ hist[t].req = 3
        /\ hist[t].delay = 4 * BaseDelay
        /\ \E q \in queue : q.task = t /\ q.at = now + 4 * BaseDelay

\* C17: requeue stores the task as Retrying and gives it one queue entry,
\* scheduled at now + delay, whose priority is the task's priority value
\* plus one, capped at Deferred.
C17_RequeueDemotesOneTier ==
    [][\A w \in Workers :
         /\ (pc[w] = "rq_update" /\ pc'[w] = "rq_insert")
                => tasks'[cur[w].id].status = RETRYING
         /\ (pc[w] = "rq_insert" /\ pc'[w] # "rq_insert") =>
              LET t == cur[w].id
                  p == tasks[t].priority
              IN  /\ Cardinality(queue' \ queue) = 1
                  /\ \A q \in queue' \ queue :
                       /\ q.task = t
                       /\ q.at = now + hist'[t].delay
                       /\ q.priority = IF p >= DEFERRED THEN DEFERRED ELSE p + 1
                       /\ q.priority \in CRITICAL..DEFERRED]_vars

\* C17 witness: a Deferred task has been requeued at Deferred, and is stored
\* as Retrying.
C17_Witness ==
    \E t \in Tasks, q \in queue :
        /\ q.task = t
        /\ tasks[t].priority = DEFERRED
        /\ tasks[t].status = RETRYING
        /\ q.priority = DEFERRED
        /\ hist[t].req = 1
        /\ q.at > now

C19_NoScalingWithinCooldown ==
    [][(/\ last_scaling_time # None
        /\ last_scaling_time' # last_scaling_time
        /\ scaler_workers' # scaler_workers)
       => last_scaling_time' - last_scaling_time >= scaling_cooldown]_vars

\* C20: every decision returned by DynamicWorkerScaler.evaluate_scaling_need,
\* whatever its action, has min_workers <= target_workers <= max_workers.
C20_TargetWithinWorkerBounds ==
    dynamic_decision # NoDecision
    => /\ min_workers <= dynamic_decision.target_workers
       /\ dynamic_decision.target_workers <= max_workers(execution_mode)

\* C21: in a tick in which the CPU usage is above its ceiling or the available
\* memory is below its ceiling, evaluate_scaling_need does not return ScaleUp
\* and the decision the scheduler executes is not a ScaleUp.
C21_NoScaleUpAtResourceLimit ==
    (system_metrics # NoMetrics
     /\ at_limit(system_metrics.cpu, system_metrics.mem))
    => /\ dynamic_decision.action # SCALE_UP
       /\ fused_decision.action # SCALE_UP

\* C22: when evaluate_scaling_need scales up, target_workers is current + 1
\* if the pressure is at most 0.9 and current + 2 if it is above 0.9, never
\* more than max_workers; pressure 0.95 with 3 active workers, max_workers 5,
\* no resource ceiling breached and no cooldown gives ScaleUp with target 5.
C22_ScaleUpAmount ==
    fn_result.fn = "evaluate_scaling_need"
    => LET d == fn_result.decision
           high == AboveTenths(fn_result.pressure, 9)
       IN  /\ d.action = SCALE_UP
              => /\ d.current_workers = fn_args.active
                 /\ d.target_workers
                      = IF high THEN Min(d.current_workers + 2,
                                         fn_args.scaler.max_workers)
                        ELSE d.current_workers + 1
                 /\ d.target_workers <= fn_args.scaler.max_workers
           /\ (/\ fn_result.pressure = <<570, 600>>
               /\ fn_args.active = 3
               /\ fn_args.scaler.max_workers = 5
               /\ ~at_limit(fn_args.cpu, fn_args.mem)
               /\ ~in_cooldown_period(FnNow, fn_args.last))
              => d.action = SCALE_UP /\ d.target_workers = 5

\* C22 witness: the scaler with max_workers 5 has returned ScaleUp from 3 to 5
\* at pressure 0.95.
C22_Witness ==
    /\ fn_result.fn = "evaluate_scaling_need"
    /\ fn_result.pressure = <<570, 600>>
    /\ fn_args.scaler.max_workers = 5
    /\ fn_result.decision = [action |-> SCALE_UP, current_workers |-> 3,
                             target_workers |-> 5, confidence |-> 80]

\* C30: the queue pressure the DynamicWorkerScaler computes is within [0, 1]
\* for any number of pending tasks, workers and any completion rate.
C30_QueuePressureInUnitInterval ==
    fn_result.fn = "calculate_queue_pressure"
    => /\ 0 <= fn_result.pressure[1]
       /\ fn_result.pressure[1] <= fn_result.pressure[2]

\* C23: in Exploration should_transition returns True exactly when the time
\* since Exploration became the active phase is at least min_duration and
\* (the throughput is stable over the last 3 samples or that time is above
\* max_duration).
C23_ExplorationExit ==
    (fn_result.fn = "should_transition" /\ fn_args.idx = 0)
    => fn_result.value
         = (/\ fn_args.elapsed >= phases[1].min_duration_seconds
            /\ \/ is_performance_stable(fn_args.throughputs)
               \/ fn_args.elapsed > phases[1].max_duration_seconds)

\* C24: in Stabilization the exit condition holds exactly when there are zero
\* pending tasks and zero in-progress tasks.
C24_StabilizationExit ==
    (fn_result.fn = "should_transition" /\ fn_args.idx = 2)
    => fn_result.value
         = (fn_args.total_pending = 0 /\ fn_args.in_progress = 0)

\* C25: the ProgressiveScheduler's phase index never decreases, grows by
\* exactly one per transition and never leaves the last phase
\* (Stabilization): no earlier phase is revisited.
C25_PhaseIndexMonotonic ==
    [][/\ current_phase_index' >= current_phase_index
       /\ current_phase_index' <= current_phase_index + 1
       /\ current_phase_index' <= Len(phases) - 1
       /\ current_phase_index = Len(phases) - 1
            => current_phase_index' = current_phase_index]_vars

\* C25 witness: the scheduler is in Stabilization, which it entered from
\* Optimization after that phase's min_duration, and time has passed since.
C25_Witness ==
    /\ current_phase_index = Len(phases) - 1
    /\ phase_start_time >= phases[2].min_duration_seconds
    /\ phase_start_time < sclock

\* C26: the fused decision is, in Auto mode, the ProgressiveScheduler's
\* recommendation unless that is a ScaleUp against a ScaleDown of the
\* DynamicWorkerScaler, when it is Maintain at the current worker count; in
\* Smart mode the DynamicWorkerScaler's decision; otherwise the decision with
\* the higher confidence.
C26_FusedDecision ==
    fn_result.fn = "fuse_decisions"
    => LET d == fn_args.dynamic
           p == fn_args.progressive
           r == fn_result.value
       IN  /\ (fn_args.mode = AUTO /\ p.action = SCALE_UP
               /\ d.action = SCALE_DOWN)
              => /\ r.action = MAINTAIN
                 /\ r.target_workers = r.current_workers
                 /\ r.current_workers = p.current_workers
           /\ (fn_args.mode = AUTO
               /\ ~(p.action = SCALE_UP /\ d.action = SCALE_DOWN))
              => r = p
           /\ fn_args.mode = SMART => r = d
           /\ fn_args.mode = FAST
              => /\ r \in {d, p}
                 /\ r.confidence >= d.confidence
                 /\ r.confidence >= p.confidence

\* C26 witness: in Auto mode a progressive ScaleUp met a dynamic ScaleDown and
\* the fused decision is Maintain.
C26_Witness ==
    /\ fn_result.fn = "fuse_decisions"
    /\ fn_args.mode = AUTO
    /\ fn_args.progressive.action = SCALE_UP
    /\ fn_args.dynamic.action = SCALE_DOWN
    /\ fn_result.value.action = MAINTAIN

\* C27: under any order of analyze_api, start and stop calls the state changes
\* only along Initializing -> Analyzing -> Running -> Stopping -> Stopped, or
\* to Stopped when the control loop ends with an error.
C27_StateTransitions ==
    [][(state' # state /\ state # "none")
       => \/ <<state, state'>> \in {<<"initializing", "analyzing">>,
                                    <<"analyzing", "running">>,
                                    <<"running", "stopping">>,
                                    <<"stopping", "stopped">>}
          \/ (is_running /\ ~is_running' /\ state' = "stopped")]_vars

\* C28: an error raised during a tick never terminates the control loop: the
\* loop stops running only when stop() is called.
C28_TickErrorKeepsLoop ==
    [][(is_running /\ ~is_running') => state' = "stopping"]_vars

\* C29: after start in Fast mode, every worker_factory call having returned a
\* worker, the scheduler has created recommended_max_workers workers.
C29_FastStartsAtRecommendedMax ==
    [][(execution_mode = FAST /\ state = "analyzing" /\ state' = "running"
        /\ scaler_workers' = 1..initial_workers(FAST))
       => Cardinality(scaler_workers') = recommended_max_workers]_vars

\* C31: a configuration with scale_down_threshold >= scale_up_threshold is
\* rejected at construction, by Settings, by the execution strategy and by
\* the DynamicWorkerScaler.
C31_BadThresholdsRejected ==
    (/\ fn_result.fn \in {"Settings", "ExecutionStrategy",
                          "DynamicWorkerScaler"}
     /\ fn_args.scale_down_threshold >= fn_args.scale_up_threshold)
    => fn_result.rejected

\* C32: the recommended maximum is the archetype's base value raised by the
\* complexity-level adjustment plus +1 for at least 50 items and +2 for at
\* least 100 items, and never exceeds 10.
C32_RecommendedBounds ==
    fn_result.fn = "calculate_recommendations"
    => LET base == base_recommendations(fn_args.pattern_name)
           n == fn_args.endpoint_count
           items == IF n >= 100 THEN 2 ELSE IF n >= 50 THEN 1 ELSE 0
           r == fn_result.value
       IN  /\ r.recommended_max_workers <= 10
           /\ r.recommended_max_workers =
                Min(base.max + complexity_adjustment(fn_args.level) + items,
                    10)

\* C33: the history of scheduling decisions never grows beyond a fixed limit
\* (the largest limit the scheduler gives a history), however many ticks run.
C33_DecisionHistoryBounded == scheduling_decisions <= scaling_history_maxlen

\* C34: while the scheduler runs, the number of workers it manages never
\* exceeds the strategy's max_workers.
C34_WorkersWithinMax ==
    is_running => Cardinality(scaler_workers) <= max_workers(execution_mode)

\* C35: a successful scale-up by k adds exactly k new workers: every worker
\* there before is still there and the worker count grows by k.
C35_ScaleUpAddsNewWorkers ==
    [][LET k == fused_decision'.target_workers
                - fused_decision'.current_workers
       IN  (/\ sclock' # sclock
            /\ fused_decision'.action = SCALE_UP
            /\ last_scaling_time' = sclock + CpuSampleSeconds
            /\ k > 0)
           => /\ scaler_workers \subseteq scaler_workers'
              /\ Cardinality(scaler_workers')
                   = Cardinality(scaler_workers) + k]_vars

\* the queue-index rows of a task
QueueRowsOf(t) == {q \in queue : q.task = t}

\* C36: whenever no store operation is in progress, a task has exactly one
\* queue-index row if its status is Pending or Retrying, and none otherwise.
C36_QueueIndexMatchesStatus ==
    NoOperationInProgress =>
        \A t \in Tasks :
            Cardinality(QueueRowsOf(t))
              = IF tasks[t].status \in {PENDING, RETRYING} THEN 1 ELSE 0

\* C37: in the scheduler-driven worker loop a task whose processing raised
\* with retry_count below the retry limit is put back on the queue: once the
\* worker is done with it, the task stored as Pending for a retry has a
\* queue row, so that it is dequeued again.
C37_FailedTaskPutBack ==
    NoOperationInProgress =>
        \A t \in Tasks :
            (tasks[t].status = PENDING /\ tasks[t].retry_count > 0)
                => QueueRowsOf(t) # {}

\* C40: after every counter update the stored total_tasks is the sum of the
\* stored pending, processing, completed and failed counters as the update
\* leaves them.
C40_TotalIsSumOfCounters ==
    progress.total = progress.pending + progress.processing
                       + progress.completed + progress.failed

\* C38: in the in-memory TaskQueue a task scheduled for retry is not
\* returned by get before its retry delay has elapsed: whenever get returns
\* an entry to a worker, the time the entry was scheduled for has come.
C38_RetryNotReturnedEarly ==
    [][\A c \in QueueWorkers :
          (taskq.pc[c] # "process" /\ taskq'.pc[c] = "process")
              => taskq'.cur[c].at <= taskq'.now]_vars

\* C39: the in-memory TaskQueue never deadlocks: no state has a get caller
\* holding the condition's lock and waiting for the queue lock while a
\* task_done caller holds the queue lock and waits for the condition's lock.
C39_NoLockOrderDeadlock ==
    ~ \E g \in QueueWorkers, t \in QueueWorkers :
          /\ taskq.pc[g] = "get_lock"
          /\ taskq.cond_holder = g
          /\ InSeq(taskq.lock_waiters, g)
          /\ taskq.pc[t] = "td_notify"
          /\ taskq.lock_holder = t
          /\ InSeq(taskq.cond_waiters, t)

====
